---- MODULE Spec2Model ----
(***************************************************************************)
(* Transcript-to-turn segmentation of claude-confessional.                 *)
(*                                                                         *)
(* The transcript is a JSONL file written by an external process; the      *)
(* reader (transcript_reader.parse_session) and the Stop hook              *)
(* (confessional_hook.parse_last_turn) decode it and reconstruct turns.    *)
(*                                                                         *)
(* Representation of Python values:                                        *)
(*   - a str that the code inspects character by character (prompt text,   *)
(*     assistant text, tool names, tool inputs) is a sequence of           *)
(*     one-character strings; "" is << >>;                                 *)
(*   - a str that the code only copies or tests for emptiness (type tags,  *)
(*     timestamps, ids, model names, stop reasons) is a TLA+ string;       *)
(*   - a dict is a function whose DOMAIN is the set of keys present, so a  *)
(*     missing key is a key outside the DOMAIN;                            *)
(*   - a value on which the code calls isinstance carries its Python type  *)
(*     in the field py ("str", "list", "dict", "int").                     *)
(***************************************************************************)
EXTENDS Integers, Sequences, FiniteSets, TLC

VARIABLES
    transcript,   \* the JSONL file: the sequence of its raw lines
    entries,      \* parse_session: the entries decoded by its last call
    session,      \* parse_session: the dict returned by its last call
    turn_spans,   \* parse_session: (start_idx, end_idx) of every turn appended
    lines,        \* parse_last_turn: the entries decoded by its last call
    last_turn,    \* parse_last_turn: the value returned by its last call
    prompt,       \* _is_skill_expansion: the prompt under classification
    skill,        \* _is_skill_expansion: the value returned for prompt
    turns,        \* compute_effectiveness_signals: the turn collection passed
    signals,      \* compute_effectiveness_signals: the dict returned for turns
    heap,         \* compute_prompt_linguistics: the dicts it has returned, by id
    calls,        \* compute_prompt_linguistics: each call's argument, the id and
                  \* the value of what it returned, and whether the caller had
                  \* mutated an earlier result by then
    transcript_dir, \* find_sessions: the files of the project's transcript
                  \* directory, in the order iterdir yields them
    report,       \* get_turns_since: the marker passed and the dict returned
    db,           \* reflection_db: the tables of ~/.reflection/history.db
    stopped,      \* handle_stop: the offsets of the prompts that were the last
                  \* complete turn of the transcript at some recorded Stop event
    clock,        \* now_iso: the wall clock, in hours
    store,        \* confessional_store: breakpoints.jsonl of every project, as
                  \* the sequence of its raw lines
    bp_ids,       \* add_breakpoint: per project, the ids its calls returned
    outcome,      \* how the last run of the hook or of a command ended
    window        \* cmd_get_window: the window printed by its last call

\* the state of the transcript readers and of the analysers
parseVars == <<transcript, entries, session, turn_spans, lines, last_turn, prompt, skill>>
linguisticsVars == <<heap, calls>>
analysisVars == <<turns, signals, linguisticsVars>>
reflectVars == <<transcript_dir, report>>
hookVars == <<db, stopped>>
envVars == <<clock, store, bp_ids, outcome, window>>
ingestVars == <<reflectVars, hookVars, envVars>>

vars == <<parseVars, analysisVars, ingestVars>>

(***************************************************************************)
(* Bounds of the model.                                                    *)
(***************************************************************************)
MaxLines == 4        \* longest transcript written
MaxHeadLen == 4      \* longest enumerated prompt head, in characters
MaxBodyWords == 101  \* most words appended after the head
MaxTurns == 4        \* most turns in a collection passed to an analyser
MaxSessionTurns == 6 \* most turns in a collection analysed for progression
MaxCalls == 2        \* most calls of compute_prompt_linguistics
MaxPrompts == 3      \* most turns in a collection passed to compute_prompt_linguistics
MaxFiles == 3        \* most files in the transcript directory
MaxRows == 3         \* most rows of a table of the database
MaxClock == 5        \* last hour the wall clock reaches
MaxSessions == 2     \* most SessionStart events recorded
MaxBreakpoints == 2  \* most lines of a breakpoints.jsonl
MaxToolNameLines == 6 \* most lines of a transcript of SpecToolNames
MaxPositionPrompts == 8 \* most prompts of a collection of SpecPosition

(***************************************************************************)
(* Python built-ins.                                                       *)
(***************************************************************************)
WHITESPACE == {" ", "\n", "\t"}

PyNone == "<None>"
NoneName == <<"<None>">>
EmptyDict == [k \in {} |-> 0]

Get(d, k, default) == IF k \in DOMAIN d THEN d[k] ELSE default

PyStr(s) == [py |-> "str", s |-> s]
PyList(items) == [py |-> "list", items |-> items]
PyInt(n) == [py |-> "int", n |-> n]

RECURSIVE LStrip(_)
LStrip(s) ==
    IF s = << >> \/ Head(s) \notin WHITESPACE THEN s ELSE LStrip(Tail(s))

RECURSIVE RStrip(_)
RStrip(s) ==
    IF s = << >> \/ s[Len(s)] \notin WHITESPACE THEN s
    ELSE RStrip(SubSeq(s, 1, Len(s) - 1))

Strip(s) == RStrip(LStrip(s))

RECURSIVE Join(_, _)
Join(sep, parts) ==
    IF parts = << >> THEN << >>
    ELSE IF Len(parts) = 1 THEN parts[1]
    ELSE parts[1] \o sep \o Join(sep, Tail(parts))

Slice(s, n) == SubSeq(s, 1, IF Len(s) < n THEN Len(s) ELSE n)

Digit(n) ==
    CASE n = 0 -> "0" [] n = 1 -> "1" [] n = 2 -> "2" [] n = 3 -> "3"
      [] n = 4 -> "4" [] n = 5 -> "5" [] n = 6 -> "6" [] n = 7 -> "7"
      [] n = 8 -> "8" [] OTHER -> "9"

RECURSIVE IntStr(_)
IntStr(n) == IF n < 10 THEN <<Digit(n)>> ELSE IntStr(n \div 10) \o <<Digit(n % 10)>>

(***************************************************************************)
(* String literals of the source.                                          *)
(***************************************************************************)
S_Bash == <<"B", "a", "s", "h">>
S_Read == <<"R", "e", "a", "d">>
S_Write == <<"W", "r", "i", "t", "e">>
S_Edit == <<"E", "d", "i", "t">>
S_Grep == <<"G", "r", "e", "p">>
S_Glob == <<"G", "l", "o", "b">>
S_WebSearch == <<"W", "e", "b", "S", "e", "a", "r", "c", "h">>
S_WebFetch == <<"W", "e", "b", "F", "e", "t", "c", "h">>
S_Task == <<"T", "a", "s", "k">>
S_Image == <<"[", "i", "m", "a", "g", "e", "]">>
S_PatternEq == <<"p", "a", "t", "t", "e", "r", "n", "=">>
S_ToolOnly ==
    <<"[", "t", "o", "o", "l", "-", "o", "n", "l", "y", " ",
      "t", "u", "r", "n", ":", " ">>

(***************************************************************************)
(* _read_jsonl.  A raw line is blank (whitespace only), the encoding of a  *)
(* JSON object, or text that json.loads rejects.                           *)
(***************************************************************************)
BlankLine(ws) == [kind |-> "blank", ws |-> ws]
JsonLine(obj) == [kind |-> "json", obj |-> obj]
CorruptLine(text) == [kind |-> "corrupt", text |-> text]

\* line.strip() leaves nothing of a blank line
StripLine(line) == IF line.kind = "blank" THEN BlankLine(<< >>) ELSE line

\* `if line:` -- the stripped line is not the empty string
LineTruthy(line) == line.kind # "blank"

\* json.loads: the decoded object, or JSONDecodeError
JsonLoads(line) ==
    IF line.kind = "json" THEN [ok |-> TRUE, value |-> line.obj]
    ELSE [ok |-> FALSE]

\* bug: `break` for `continue`: reading stops at the first corrupt line
RECURSIVE ReadJsonl_StopAtCorrupt(_)
ReadJsonl_StopAtCorrupt(file) ==
    IF file = << >> THEN << >>
    ELSE LET line == StripLine(Head(file))
         IN IF LineTruthy(line)
            THEN LET r == JsonLoads(line)
                 IN IF r.ok THEN <<r.value>> \o ReadJsonl_StopAtCorrupt(Tail(file))
                    ELSE << >>
            ELSE ReadJsonl_StopAtCorrupt(Tail(file))

RECURSIVE ReadJsonl(_)
ReadJsonl(file) ==
    IF file = << >> THEN << >>
    ELSE LET line == StripLine(Head(file))
             rest == ReadJsonl(Tail(file))
         IN IF LineTruthy(line)
            THEN LET r == JsonLoads(line)
                 IN IF r.ok THEN <<r.value>> \o rest ELSE rest
            ELSE rest

(***************************************************************************)
(* str(tool_input): the repr of a dict whose keys and values are strs.     *)
(* Keys are written in the order of INPUT_KEYS (a JSON object keeps the    *)
(* order of the file; the model fixes one order).                          *)
(***************************************************************************)
INPUT_KEYS == <<"command", "file_path", "pattern", "path", "query", "url", "prompt">>

KeyChars(k) ==
    CASE k = "command" -> <<"c", "o", "m", "m", "a", "n", "d">>
      [] k = "file_path" -> <<"f", "i", "l", "e", "_", "p", "a", "t", "h">>
      [] k = "pattern" -> <<"p", "a", "t", "t", "e", "r", "n">>
      [] k = "path" -> <<"p", "a", "t", "h">>
      [] k = "query" -> <<"q", "u", "e", "r", "y">>
      [] k = "url" -> <<"u", "r", "l">>
      [] OTHER -> <<"p", "r", "o", "m", "p", "t">>

ReprItem(d, k) ==
    <<"'">> \o KeyChars(k) \o <<"'", ":", " ", "'">> \o d[k] \o <<"'">>

ReprDict(d) ==
    LET present == SelectSeq(INPUT_KEYS, LAMBDA k: k \in DOMAIN d)
        items == [i \in 1..Len(present) |-> ReprItem(d, present[i])]
    IN <<"{">> \o Join(<<",", " ">>, items) \o <<"}">>

(***************************************************************************)
(* transcript_reader: helpers of parse_session.                            *)
(***************************************************************************)
RECURSIVE PromptParts(_)
PromptParts(items) ==
    IF items = << >> THEN << >>
    ELSE LET block == Head(items)
             rest == PromptParts(Tail(items))
         IN IF block.py = "dict"
            THEN IF Get(block, "type", PyNone) = "text"
                 THEN <<Get(block, "text", << >>)>> \o rest
                 ELSE IF Get(block, "type", PyNone) = "tool_result"
                 THEN rest
                 ELSE IF Get(block, "type", PyNone) = "image"
                 THEN <<S_Image>> \o rest
                 ELSE rest
            ELSE IF block.py = "str" THEN <<block.s>> \o rest
            ELSE rest

\* _extract_user_prompt_text(content)
ExtractUserPromptText(content) ==
    IF content.py = "str" THEN content.s
    ELSE IF content.py = "list" THEN Join(<<"\n">>, PromptParts(content.items))
    ELSE << >>

\* bug: every non-empty list counts as a prompt, tool results included
IsRealUserPrompt_AnyList(entry) ==
    LET content == Get(Get(entry, "message", EmptyDict), "content", PyStr(<< >>))
    IN IF content.py = "str" /\ Strip(content.s) # << >> THEN TRUE
       ELSE IF content.py = "list" THEN content.items # << >>
       ELSE FALSE

\* bug: a str content is not stripped before the emptiness test
IsRealUserPrompt_Unstripped(entry) ==
    LET content == Get(Get(entry, "message", EmptyDict), "content", PyStr(<< >>))
    IN IF content.py = "str" /\ content.s # << >> THEN TRUE
       ELSE IF content.py = "list"
       THEN \E i \in 1..Len(content.items) :
                \/ /\ content.items[i].py = "dict"
                   /\ Get(content.items[i], "type", PyNone) # "tool_result"
                \/ content.items[i].py = "str"
       ELSE FALSE

\* _is_real_user_prompt(entry)
IsRealUserPrompt(entry) ==
    LET content == Get(Get(entry, "message", EmptyDict), "content", PyStr(<< >>))
    IN IF content.py = "str" /\ Strip(content.s) # << >> THEN TRUE
       ELSE IF content.py = "list"
       THEN \E i \in 1..Len(content.items) :
                \/ /\ content.items[i].py = "dict"
                   /\ Get(content.items[i], "type", PyNone) # "tool_result"
                \/ content.items[i].py = "str"
       ELSE FALSE

\* _summarize_tool_input(tool_name, tool_input)
SummarizeToolInput(tool_name, tool_input) ==
    IF tool_name = S_Bash THEN Slice(Get(tool_input, "command", << >>), 200)
    ELSE IF tool_name \in {S_Read, S_Write, S_Edit}
    THEN Get(tool_input, "file_path", << >>)
    ELSE IF tool_name \in {S_Grep, S_Glob}
    THEN S_PatternEq \o Get(tool_input, "pattern", << >>)
    ELSE IF tool_name = S_WebSearch THEN Get(tool_input, "query", << >>)
    ELSE IF tool_name = S_WebFetch THEN Get(tool_input, "url", << >>)
    ELSE IF tool_name = S_Task THEN Slice(Get(tool_input, "prompt", << >>), 200)
    ELSE Slice(ReprDict(tool_input), 200)

\* _extract_files(tool_name, tool_input)
ExtractFiles(tool_name, tool_input) ==
    IF tool_name \in {S_Read, S_Write, S_Edit}
    THEN Get(tool_input, "file_path", << >>)
    ELSE IF tool_name \in {S_Glob, S_Grep} THEN Get(tool_input, "path", << >>)
    ELSE << >>

(***************************************************************************)
(* str(result_content) for the tool_result contents of the model: ints,    *)
(* strs and lists of them.                                                 *)
(***************************************************************************)
RECURSIVE ReprValue(_)
ReprValue(v) ==
    IF v.py = "int" THEN IntStr(v.n)
    ELSE IF v.py = "str" THEN <<"'">> \o v.s \o <<"'">>
    ELSE <<"[">>
         \o Join(<<",", " ">>, [i \in 1..Len(v.items) |-> ReprValue(v.items[i])])
         \o <<"]">>

(***************************************************************************)
(* parse_session: the accumulators of one turn (lines 258-270) and the     *)
(* body of the loop over the entries of its span (lines 272-345).          *)
(* Indices are 1-based: entry i of the model is entries[i-1] of the code.  *)
(***************************************************************************)
EmptyAcc ==
    [response_texts |-> << >>, tools |-> << >>, blocks |-> << >>, seq |-> 0,
     last_tool_name |-> << >>,
     total_input |-> 0, total_output |-> 0,
     total_cache_read |-> 0, total_cache_creation |-> 0,
     turn_model |-> "", stop_reason |-> ""]

\* bug: seq is not advanced
AppendBlock_NoIncrement(acc, type, content, tool_name) ==
    [acc EXCEPT !.blocks = Append(@, [sequence |-> acc.seq, type |-> type,
                                      content |-> content, tool_name |-> tool_name])]

\* blocks.append({...}); seq += 1
AppendBlock(acc, type, content, tool_name) ==
    [acc EXCEPT !.blocks = Append(@, [sequence |-> acc.seq, type |-> type,
                                      content |-> content, tool_name |-> tool_name]),
                !.seq = @ + 1]

\* block.get("type") == "text"
TextBlockStep(acc, block) ==
    LET text == Strip(Get(block, "text", << >>))
    IN IF text # << >>
       THEN AppendBlock([acc EXCEPT !.response_texts = Append(@, text)],
                        "text", text, NoneName)
       ELSE acc

\* bug: last_tool_name keeps the first tool name of the turn
ToolUseBlockStep_FirstName(acc, block) ==
    LET tool_name == Get(block, "name", << >>)
        tool_input == Get(block, "input", EmptyDict)
        tool == [tool_name |-> tool_name,
                 input_summary |-> SummarizeToolInput(tool_name, tool_input),
                 files_touched |-> ExtractFiles(tool_name, tool_input),
                 is_subagent |-> (tool_name = S_Task)]
    IN AppendBlock([acc EXCEPT !.last_tool_name = IF @ = << >> THEN tool_name ELSE @,
                               !.tools = Append(@, tool)],
                   "tool_use", SummarizeToolInput(tool_name, tool_input), tool_name)

\* block.get("type") == "tool_use"
ToolUseBlockStep(acc, block) ==
    LET tool_name == Get(block, "name", << >>)
        tool_input == Get(block, "input", EmptyDict)
        tool == [tool_name |-> tool_name,
                 input_summary |-> SummarizeToolInput(tool_name, tool_input),
                 files_touched |-> ExtractFiles(tool_name, tool_input),
                 is_subagent |-> (tool_name = S_Task)]
    IN AppendBlock([acc EXCEPT !.last_tool_name = tool_name,
                               !.tools = Append(@, tool)],
                   "tool_use", SummarizeToolInput(tool_name, tool_input), tool_name)

\* one iteration of `for block in content` of an assistant entry
AssistantBlockStep(acc, block) ==
    IF block.py # "dict" THEN acc
    ELSE IF Get(block, "type", PyNone) = "text" THEN TextBlockStep(acc, block)
    ELSE IF Get(block, "type", PyNone) = "tool_use" THEN ToolUseBlockStep(acc, block)
    ELSE acc

RECURSIVE FoldAssistantBlocks(_, _)
FoldAssistantBlocks(acc, items) ==
    IF items = << >> THEN acc
    ELSE FoldAssistantBlocks(AssistantBlockStep(acc, Head(items)), Tail(items))

\* one iteration of `for block in content` of a user entry inside a span
ToolResultStep(acc, block) ==
    IF block.py = "dict" /\ Get(block, "type", PyNone) = "tool_result"
    THEN LET result_content == Get(block, "content", PyStr(<< >>))
             result_text == IF result_content.py = "str"
                            THEN Slice(result_content.s, 500)
                            ELSE Slice(ReprValue(result_content), 500)
         IN AppendBlock(acc, "tool_result", result_text, acc.last_tool_name)
    ELSE acc

RECURSIVE FoldToolResults(_, _)
FoldToolResults(acc, items) ==
    IF items = << >> THEN acc
    ELSE FoldToolResults(ToolResultStep(acc, Head(items)), Tail(items))

\* `if x.get(k):` for a str-valued key
Truthy(d, k) == k \in DOMAIN d /\ d[k] # ""

\* if not turn_model and msg.get("model"): turn_model = msg["model"]
FirstModel(turn_model, msg) ==
    IF turn_model = "" /\ Truthy(msg, "model") THEN msg["model"] ELSE turn_model

\* bug: the first stop_reason seen is kept
LastStopReason_FirstWins(stop_reason, msg) ==
    IF stop_reason = "" /\ Truthy(msg, "stop_reason") THEN msg["stop_reason"]
    ELSE stop_reason

\* if msg.get("stop_reason"): stop_reason = msg["stop_reason"]
LastStopReason(stop_reason, msg) ==
    IF Truthy(msg, "stop_reason") THEN msg["stop_reason"] ELSE stop_reason

\* bug: the counter of the entry overwrites the total
AddUsage_Overwrite(total, usage, key) == Get(usage, key, 0)

\* total_x += usage.get(key, 0)
AddUsage(total, usage, key) == total + Get(usage, key, 0)

AccumulateUsage(acc, usage) ==
    [acc EXCEPT
        !.total_input = AddUsage(@, usage, "input_tokens"),
        !.total_output = AddUsage(@, usage, "output_tokens"),
        !.total_cache_read = AddUsage(@, usage, "cache_read_input_tokens"),
        !.total_cache_creation = AddUsage(@, usage, "cache_creation_input_tokens")]

\* entry_type == "assistant"
AssistantEntryStep(acc, entry) ==
    LET msg == Get(entry, "message", EmptyDict)
        content == Get(msg, "content", PyList(<< >>))
        a1 == [acc EXCEPT !.turn_model = FirstModel(@, msg)]
        a2 == AccumulateUsage(a1, Get(msg, "usage", EmptyDict))
        a3 == [a2 EXCEPT !.stop_reason = LastStopReason(@, msg)]
    IN IF content.py # "list" THEN a3 ELSE FoldAssistantBlocks(a3, content.items)

\* entry_type == "user": a tool result cycle
UserEntryStep(acc, entry) ==
    LET content == Get(Get(entry, "message", EmptyDict), "content", PyList(<< >>))
    IN IF content.py = "list" THEN FoldToolResults(acc, content.items) ELSE acc

SpanStep(acc, entry) ==
    IF Get(entry, "type", PyNone) = "assistant" THEN AssistantEntryStep(acc, entry)
    ELSE IF Get(entry, "type", PyNone) = "user" THEN UserEntryStep(acc, entry)
    ELSE acc

\* for i in range(start_idx + 1, end_idx)
RECURSIVE FoldSpan(_, _, _, _)
FoldSpan(acc, es, i, end_idx) ==
    IF i >= end_idx THEN acc
    ELSE FoldSpan(SpanStep(acc, es[i]), es, i + 1, end_idx)

(***************************************************************************)
(* parse_session: session metadata, turn boundaries, turn construction.    *)
(***************************************************************************)
\* the first non-empty value of key over the entries (lines 231-239)
RECURSIVE FirstTruthy(_, _)
FirstTruthy(es, key) ==
    IF es = << >> THEN ""
    ELSE IF Truthy(Head(es), key) THEN Head(es)[key]
    ELSE FirstTruthy(Tail(es), key)

\* turn_starts (lines 244-247)
TurnStarts(es) ==
    SelectSeq([i \in 1..Len(es) |-> i],
              LAMBDA i : Get(es[i], "type", PyNone) = "user" /\ IsRealUserPrompt(es[i]))

\* end_idx (line 250)
EndIdx(es, turn_starts, t_idx) ==
    IF t_idx + 1 <= Len(turn_starts) THEN turn_starts[t_idx + 1] ELSE Len(es) + 1

\* bug: no response is synthesized for a tool-only turn
Response_NoSynthesis(acc) == Join(<<"\n", "\n">>, acc.response_texts)

\* response (lines 351-355)
Response(acc) ==
    LET response == Join(<<"\n", "\n">>, acc.response_texts)
    IN IF response = << >> /\ acc.tools # << >>
       THEN S_ToolOnly
            \o Join(<<",", " ">>, [i \in 1..Len(acc.tools) |-> acc.tools[i].tool_name])
            \o <<"]">>
       ELSE response

\* `if not response and not tools: continue` (lines 357-358)
Skipped(acc) == Response(acc) = << >> /\ acc.tools = << >>

\* bug: .get without its default yields None for a missing timestamp
TurnTimestamp_NoDefault(user_entry) == Get(user_entry, "timestamp", PyNone)

\* turn_timestamp (line 256)
TurnTimestamp(user_entry) == Get(user_entry, "timestamp", "")

\* the dict appended to turns (lines 360-375)
Turn(user_entry, acc, session_id) ==
    [prompt |-> ExtractUserPromptText(
                    Get(Get(user_entry, "message", EmptyDict), "content", PyStr(<< >>))),
     response |-> Response(acc),
     tools |-> acc.tools,
     blocks |-> acc.blocks,
     metrics |-> [model |-> acc.turn_model,
                  input_tokens |-> acc.total_input,
                  output_tokens |-> acc.total_output,
                  cache_read_tokens |-> acc.total_cache_read,
                  cache_creation_tokens |-> acc.total_cache_creation,
                  stop_reason |-> acc.stop_reason],
     timestamp |-> TurnTimestamp(user_entry),
     session_id |-> session_id]

\* one iteration of `for t_idx, start_idx in enumerate(turn_starts)`;
\* st carries turns, model and the (start_idx, end_idx) of the turns appended
TurnStep(st, es, turn_starts, t_idx, session_id) ==
    LET start_idx == turn_starts[t_idx]
        end_idx == EndIdx(es, turn_starts, t_idx)
        acc == FoldSpan(EmptyAcc, es, start_idx + 1, end_idx)
        model == IF acc.turn_model # "" /\ st.model = "" THEN acc.turn_model
                 ELSE st.model
    IN IF Skipped(acc) THEN [st EXCEPT !.model = model]
       ELSE [turns |-> Append(st.turns, Turn(es[start_idx], acc, session_id)),
             spans |-> Append(st.spans, <<start_idx, end_idx>>),
             model |-> model]

RECURSIVE FoldTurns(_, _, _, _, _)
FoldTurns(st, es, turn_starts, t_idx, session_id) ==
    IF t_idx > Len(turn_starts) THEN st
    ELSE FoldTurns(TurnStep(st, es, turn_starts, t_idx, session_id),
                   es, turn_starts, t_idx + 1, session_id)

\* parse_session(path), from the decoded entries on
ParseSession(es) ==
    LET session_id == FirstTruthy(es, "sessionId")
        st == FoldTurns([turns |-> << >>, spans |-> << >>, model |-> ""],
                        es, TurnStarts(es), 1, session_id)
    IN [ret |-> [session_id |-> session_id,
                 model |-> st.model,
                 version |-> FirstTruthy(es, "version"),
                 git_branch |-> FirstTruthy(es, "gitBranch"),
                 turns |-> st.turns],
        spans |-> st.spans]

(***************************************************************************)
(* confessional_hook: parse_last_turn and its helpers.                     *)
(***************************************************************************)
\* the loop that decodes the transcript (lines 141-149)
RECURSIVE HookReadLines(_)
HookReadLines(file) ==
    IF file = << >> THEN << >>
    ELSE LET line_str == StripLine(Head(file))
             rest == HookReadLines(Tail(file))
         IN IF LineTruthy(line_str)
            THEN LET r == JsonLoads(line_str)
                 IN IF r.ok THEN <<r.value>> \o rest ELSE rest
            ELSE rest

RECURSIVE HookPromptParts(_)
HookPromptParts(items) ==
    IF items = << >> THEN << >>
    ELSE LET block == Head(items)
             rest == HookPromptParts(Tail(items))
         IN IF block.py = "dict"
            THEN IF Get(block, "type", PyNone) = "text"
                 THEN <<Get(block, "text", << >>)>> \o rest
                 ELSE IF Get(block, "type", PyNone) = "tool_result"
                 THEN rest
                 ELSE IF Get(block, "type", PyNone) = "image"
                 THEN <<S_Image>> \o rest
                 ELSE rest
            ELSE IF block.py = "str" THEN <<block.s>> \o rest
            ELSE rest

\* confessional_hook._extract_user_prompt_text(entry)
HookExtractUserPromptText(entry) ==
    LET content == Get(Get(entry, "message", EmptyDict), "content", PyStr(<< >>))
    IN IF content.py = "str" THEN content.s
       ELSE IF content.py = "list" THEN Join(<<"\n">>, HookPromptParts(content.items))
       ELSE << >>

\* confessional_hook._summarize_tool_input(tool_name, tool_input)
HookSummarizeToolInput(tool_name, tool_input) ==
    IF tool_name = S_Bash THEN Slice(Get(tool_input, "command", << >>), 200)
    ELSE IF tool_name \in {S_Read, S_Write, S_Edit}
    THEN Get(tool_input, "file_path", << >>)
    ELSE IF tool_name = S_Grep THEN S_PatternEq \o Get(tool_input, "pattern", << >>)
    ELSE IF tool_name = S_Glob THEN S_PatternEq \o Get(tool_input, "pattern", << >>)
    ELSE IF tool_name = S_WebSearch THEN Get(tool_input, "query", << >>)
    ELSE IF tool_name = S_WebFetch THEN Get(tool_input, "url", << >>)
    ELSE IF tool_name = S_Task THEN Slice(Get(tool_input, "prompt", << >>), 200)
    ELSE Slice(ReprDict(tool_input), 200)

\* confessional_hook._extract_files(tool_name, tool_input)
HookExtractFiles(tool_name, tool_input) ==
    IF tool_name \in {S_Read, S_Write, S_Edit}
    THEN Get(tool_input, "file_path", << >>)
    ELSE IF tool_name = S_Glob THEN Get(tool_input, "path", << >>)
    ELSE IF tool_name = S_Grep THEN Get(tool_input, "path", << >>)
    ELSE << >>

\* the test of the backwards scan (lines 156-170)
IsLastUserCandidate(entry) ==
    /\ Get(entry, "type", PyNone) = "user"
    /\ LET content == Get(Get(entry, "message", EmptyDict), "content", PyStr(<< >>))
       IN \/ content.py = "str" /\ Strip(content.s) # << >>
          \/ /\ content.py = "list"
             /\ \E i \in 1..Len(content.items) :
                    \/ /\ content.items[i].py = "dict"
                       /\ Get(content.items[i], "type", PyNone) # "tool_result"
                    \/ content.items[i].py = "str"

\* last_user_idx: for i in range(len(lines) - 1, -1, -1); 0 stands for None
RECURSIVE LastUserIdx(_, _)
LastUserIdx(ls, i) ==
    IF i < 1 THEN 0
    ELSE IF IsLastUserCandidate(ls[i]) THEN i
    ELSE LastUserIdx(ls, i - 1)

\* one iteration of `for block in content` (lines 192-211)
HookBlockStep(acc, block) ==
    IF block.py # "dict" THEN acc
    ELSE IF Get(block, "type", PyNone) = "text"
    THEN LET text == Strip(Get(block, "text", << >>))
         IN IF text # << >>
            THEN [acc EXCEPT !.response_texts = Append(@, text)]
            ELSE acc
    ELSE IF Get(block, "type", PyNone) = "tool_use"
    THEN LET tool_input == Get(block, "input", EmptyDict)
             tool_name == Get(block, "name", << >>)
         IN [acc EXCEPT !.tools = Append(@,
                [tool_name |-> tool_name,
                 input_summary |-> HookSummarizeToolInput(tool_name, tool_input),
                 files_touched |-> HookExtractFiles(tool_name, tool_input),
                 is_subagent |-> (tool_name = S_Task),
                 subagent_task |-> IF tool_name = S_Task
                                   THEN Slice(Get(tool_input, "prompt", << >>), 200)
                                   ELSE << >>,
                 subagent_result_summary |-> << >>,
                 duration_ms |-> 0])]
    ELSE acc

RECURSIVE HookFoldBlocks(_, _)
HookFoldBlocks(acc, items) ==
    IF items = << >> THEN acc
    ELSE HookFoldBlocks(HookBlockStep(acc, Head(items)), Tail(items))

\* one iteration of `for i in range(last_user_idx + 1, len(lines))`
HookEntryStep(acc, entry) ==
    IF Get(entry, "type", PyNone) # "assistant" THEN acc
    ELSE LET content == Get(Get(entry, "message", EmptyDict), "content", PyList(<< >>))
         IN IF content.py # "list" THEN acc ELSE HookFoldBlocks(acc, content.items)

RECURSIVE HookFoldEntries(_, _, _)
HookFoldEntries(acc, ls, i) ==
    IF i > Len(ls) THEN acc
    ELSE HookFoldEntries(HookEntryStep(acc, ls[i]), ls, i + 1)

\* bug: the texts are joined with one newline
HookResponse_OneNewline(acc) ==
    LET response == Join(<<"\n">>, acc.response_texts)
    IN IF response = << >> /\ acc.tools # << >>
       THEN S_ToolOnly
            \o Join(<<",", " ">>, [i \in 1..Len(acc.tools) |-> acc.tools[i].tool_name])
            \o <<"]">>
       ELSE response

\* response (lines 216-220)
HookResponse(acc) ==
    LET response == Join(<<"\n", "\n">>, acc.response_texts)
    IN IF response = << >> /\ acc.tools # << >>
       THEN S_ToolOnly
            \o Join(<<",", " ">>, [i \in 1..Len(acc.tools) |-> acc.tools[i].tool_name])
            \o <<"]">>
       ELSE response

ReturnedNone == [py |-> "None"]

\* parse_last_turn(transcript_path), from the decoded lines on
ParseLastTurn(ls) ==
    LET last_user_idx == LastUserIdx(ls, Len(ls))
    IN IF last_user_idx = 0 THEN ReturnedNone
       ELSE LET acc == HookFoldEntries([response_texts |-> << >>, tools |-> << >>],
                                       ls, last_user_idx + 1)
            IN IF acc.response_texts = << >> /\ acc.tools = << >> THEN ReturnedNone
               ELSE [py |-> "dict",
                     prompt |-> HookExtractUserPromptText(ls[last_user_idx]),
                     response |-> HookResponse(acc),
                     tools |-> acc.tools]

(***************************************************************************)
(* transcript_reader: _is_skill_expansion.                                 *)
(***************************************************************************)
SKILL_EXPANSION_MIN_WORDS == 100

\* the characters of \w
WORD_CHARS ==
    {"a", "b", "c", "d", "e", "f", "g", "h", "i", "j", "k", "l", "m",
     "n", "o", "p", "q", "r", "s", "t", "u", "v", "w", "x", "y", "z",
     "A", "B", "C", "D", "E", "F", "G", "H", "I", "J", "K", "L", "M",
     "N", "O", "P", "Q", "R", "S", "T", "U", "V", "W", "X", "Y", "Z",
     "0", "1", "2", "3", "4", "5", "6", "7", "8", "9", "_"}

\* the positions at which a run of characters of class, started at i, may end
RunEnds(s, i, class) ==
    {j \in i..(Len(s) + 1) : \A k \in i..(j - 1) : s[k] \in class}

\* SKILL_EXPANSION_PATTERN.match(prompt) for the pattern ^#\s+\w+\s*\n:
\* the positions reached after each element of the pattern
PatternMatch(s) ==
    LET p0 == IF Len(s) >= 1 /\ s[1] = "#" THEN {2} ELSE {}
        p1 == UNION {RunEnds(s, i, WHITESPACE) \ {i} : i \in p0}
        p2 == UNION {RunEnds(s, i, WORD_CHARS) \ {i} : i \in p1}
        p3 == UNION {RunEnds(s, i, WHITESPACE) : i \in p2}
    IN \E i \in p3 : i <= Len(s) /\ s[i] = "\n"

\* _word_count(text): len(text.split())
WordCount(text) ==
    Cardinality({i \in 1..Len(text) :
                    /\ text[i] \notin WHITESPACE
                    /\ (i = 1 \/ text[i - 1] \in WHITESPACE)})

\* bug: > for >=
MeetsMinWords_Strict(n) == n > SKILL_EXPANSION_MIN_WORDS

\* `_word_count(prompt) >= SKILL_EXPANSION_MIN_WORDS`
MeetsMinWords(n) == n >= SKILL_EXPANSION_MIN_WORDS

\* _is_skill_expansion(prompt)
IsSkillExpansion(p) ==
    IF Strip(p) = << >> THEN FALSE
    ELSE IF PatternMatch(p) /\ MeetsMinWords(WordCount(p)) THEN TRUE
    ELSE FALSE

(***************************************************************************)
(* Transcript entries (the builders of tests/conftest.py and               *)
(* tests/test_transcript_reader.py).                                       *)
(***************************************************************************)
TextBlock(text) == [py |-> "dict", type |-> "text", text |-> text]
ToolUseBlock(name, input) ==
    [py |-> "dict", type |-> "tool_use", name |-> name, input |-> input]
ToolResultBlock(content) ==
    [py |-> "dict", type |-> "tool_result", content |-> content]
ImageBlock == [py |-> "dict", type |-> "image"]
DocumentBlock == [py |-> "dict", type |-> "document"]

UserEntry(content) == [type |-> "user", message |-> [content |-> content]]
AssistantEntry(content_blocks) ==
    [type |-> "assistant", message |-> [content |-> PyList(content_blocks)]]
QueueEntry == [type |-> "queue-operation"]

HiPrompt == UserEntry(PyStr(<<"h", "i">>))
ToolResultEntry == UserEntry(PyList(<<ToolResultBlock(PyStr(<<"r">>))>>))

\* the lines of the default specification: prompts, assistant entries with
\* text and tool calls in both orders, tool-result cycles
SegLines ==
    {JsonLine(HiPrompt),
     JsonLine(AssistantEntry(<<TextBlock(<<" ", "o", "k">>)>>)),
     JsonLine(AssistantEntry(<<TextBlock(<<"a">>),
                               ToolUseBlock(S_Read, [file_path |-> <<"f">>])>>)),
     JsonLine(AssistantEntry(<<ToolUseBlock(S_Bash, [command |-> <<"l", "s">>]),
                               TextBlock(<<" ">>),
                               ToolUseBlock(S_Task, [prompt |-> <<"p">>])>>)),
     JsonLine(ToolResultEntry),
     JsonLine(UserEntry(PyList(<<ToolResultBlock(PyStr(<<"x">>)),
                                 ToolResultBlock(PyInt(7))>>)))}

(***************************************************************************)
(* State machine.                                                          *)
(***************************************************************************)
NotCalled == [turns |-> << >>]
NoLastTurn == [py |-> "not called"]
NoSkill == [py |-> "not called"]
NoSignals == [py |-> "not called"]

\* get_turns_since has not been called on the directory as it is
NoReport == [py |-> "not called"]

\* the database before its first write: no table has a row.  A table that does
\* not exist yet reads as an empty one: init_db creates the tables before any
\* write, and is_recording_enabled answers False without recording_state
EmptyDb ==
    [breakpoints |-> << >>, prompts |-> << >>, tool_usage |-> << >>,
     responses |-> << >>, turn_blocks |-> << >>, recording_state |-> << >>,
     session_context |-> << >>]

\* the projects of the specifications
PROJECT == "proj"
OTHER_PROJECT == "other"
PROJECTS == {PROJECT, OTHER_PROJECT}

\* no project has a breakpoints.jsonl yet: a missing file reads as an empty one
EmptyStore == [project \in PROJECTS |-> << >>]
NoneReturned == [project \in PROJECTS |-> << >>]

\* the hook has not run; cmd_get_window has not been called
NoOutcome == [py |-> "not called"]
NoWindow == [py |-> "not called"]

Init ==
    /\ transcript = << >>
    /\ entries = << >>
    /\ session = NotCalled
    /\ turn_spans = << >>
    /\ lines = << >>
    /\ last_turn = NoLastTurn
    /\ prompt = << >>
    /\ skill = NoSkill
    /\ turns = << >>
    /\ signals = NoSignals
    /\ heap = EmptyDict
    /\ calls = << >>
    /\ transcript_dir = << >>
    /\ report = NoReport
    /\ db = EmptyDb
    /\ stopped = {}
    /\ clock = 0
    /\ store = EmptyStore
    /\ bp_ids = NoneReturned
    /\ outcome = NoOutcome
    /\ window = NoWindow

\* the external writer appends one line to the transcript
Write(line) ==
    /\ Len(transcript) < MaxLines
    /\ transcript' = Append(transcript, line)
    /\ UNCHANGED <<entries, session, turn_spans, lines, last_turn, prompt, skill>>
    /\ UNCHANGED analysisVars
    /\ UNCHANGED ingestVars

WriteSegLine == \E line \in SegLines : Write(line)

\* a call of transcript_reader.parse_session on the transcript
ParseSessionCall ==
    /\ entries' = ReadJsonl(transcript)
    /\ session' = ParseSession(ReadJsonl(transcript)).ret
    /\ turn_spans' = ParseSession(ReadJsonl(transcript)).spans
    /\ UNCHANGED <<transcript, lines, last_turn, prompt, skill>>
    /\ UNCHANGED analysisVars
    /\ UNCHANGED ingestVars

\* a call of confessional_hook.parse_last_turn on the transcript
ParseLastTurnCall ==
    /\ lines' = HookReadLines(transcript)
    /\ last_turn' = ParseLastTurn(HookReadLines(transcript))
    /\ UNCHANGED <<transcript, entries, session, turn_spans, prompt, skill>>
    /\ UNCHANGED analysisVars
    /\ UNCHANGED ingestVars

Next == WriteSegLine \/ ParseSessionCall \/ ParseLastTurnCall

Spec == Init /\ [][Next]_vars

(***************************************************************************)
(* SpecMetrics: transcripts whose entries carry or lack timestamp,         *)
(* sessionId, message, content, model, usage and stop_reason.              *)
(***************************************************************************)
OkText == <<TextBlock(<<"o", "k">>)>>

MetricLines ==
    {JsonLine(HiPrompt),
     JsonLine([type |-> "user", timestamp |-> "t1", sessionId |-> "s1",
               version |-> "2.1.39", gitBranch |-> "main",
               message |-> [content |-> PyStr(<<"g", "o">>)]]),
     JsonLine([type |-> "assistant",
               message |-> [content |-> PyList(OkText), model |-> "m1",
                            stop_reason |-> "tool_use",
                            usage |-> [input_tokens |-> 1, output_tokens |-> 2,
                                       cache_read_input_tokens |-> 3,
                                       cache_creation_input_tokens |-> 4]]]),
     JsonLine([type |-> "assistant", sessionId |-> "s2",
               message |-> [content |-> PyList(OkText), model |-> "m2",
                            stop_reason |-> "end_turn",
                            usage |-> [input_tokens |-> 5, output_tokens |-> 1]]]),
     JsonLine(AssistantEntry(OkText)),
     JsonLine([type |-> "assistant"]),
     JsonLine([type |-> "assistant",
               message |-> [model |-> "m1", usage |-> [output_tokens |-> 7]]]),
     JsonLine([timestamp |-> "t0"])}

WriteMetricLine == \E line \in MetricLines : Write(line)

NextMetrics == WriteMetricLine \/ ParseSessionCall

SpecMetrics == Init /\ [][NextMetrics]_vars

(***************************************************************************)
(* SpecInterleave: a transcript into which structural markers and user     *)
(* entries of empty or blank content are inserted at any position.         *)
(***************************************************************************)
InterleaveLines ==
    {JsonLine(HiPrompt),
     JsonLine(AssistantEntry(<<TextBlock(<<"a">>),
                               ToolUseBlock(S_Read, [file_path |-> <<"f">>])>>)),
     JsonLine(ToolResultEntry)}

Markers ==
    {JsonLine(QueueEntry),
     JsonLine([type |-> "summary", message |-> [content |-> PyList(OkText)]]),
     JsonLine(UserEntry(PyStr(<< >>))),
     JsonLine(UserEntry(PyStr(<<" ", "\n">>))),
     JsonLine(UserEntry(PyList(<< >>)))}

InsertAt(file, pos, line) ==
    SubSeq(file, 1, pos - 1) \o <<line>> \o SubSeq(file, pos, Len(file))

WriteInterleaveLine == \E line \in InterleaveLines : Write(line)

\* a marker appears at any position of the transcript
InsertMarker ==
    /\ Len(transcript) < MaxLines
    /\ \E marker \in Markers : \E pos \in 1..(Len(transcript) + 1) :
           transcript' = InsertAt(transcript, pos, marker)
    /\ UNCHANGED <<entries, session, turn_spans, lines, last_turn, prompt, skill>>
    /\ UNCHANGED analysisVars
    /\ UNCHANGED ingestVars

NextInterleave == WriteInterleaveLine \/ InsertMarker \/ ParseSessionCall

SpecInterleave == Init /\ [][NextInterleave]_vars

(***************************************************************************)
(* SpecShapes: prompts of every shape of content.                          *)
(***************************************************************************)
ShapeLines ==
    {JsonLine(HiPrompt),
     JsonLine(UserEntry(PyList(<<TextBlock(<< >>)>>))),
     JsonLine(UserEntry(PyList(<<ImageBlock>>))),
     JsonLine(UserEntry(PyList(<<PyStr(<< >>)>>))),
     JsonLine(UserEntry(PyList(<<DocumentBlock>>))),
     JsonLine(UserEntry(PyList(<<TextBlock(<<"a">>), PyStr(<<"b">>)>>))),
     JsonLine(UserEntry(PyInt(42))),
     JsonLine(AssistantEntry(OkText))}

WriteShapeLine == \E line \in ShapeLines : Write(line)

NextShapes == WriteShapeLine \/ ParseSessionCall

SpecShapes == Init /\ [][NextShapes]_vars

(***************************************************************************)
(* SpecRead: transcripts with blank and undecodable lines.                 *)
(***************************************************************************)
ReadLines ==
    {BlankLine(<< >>),
     BlankLine(<<" ", "\t">>),
     CorruptLine("this is not json"),
     CorruptLine("{incomplete json"),
     JsonLine(HiPrompt),
     JsonLine(AssistantEntry(OkText))}

WriteReadLine == \E line \in ReadLines : Write(line)

NextRead == WriteReadLine \/ ParseSessionCall

SpecRead == Init /\ [][NextRead]_vars

(***************************************************************************)
(* SpecSkill: a prompt is typed, a body of words is pasted after it, and   *)
(* the prompt is classified by _is_skill_expansion.                        *)
(***************************************************************************)
HeadChars == {"#", " ", "\n", "a", "-"}

RECURSIVE Body(_)
Body(n) == IF n = 0 THEN << >> ELSE <<" ", "w">> \o Body(n - 1)

BodySizes == {1, 2} \cup ((SKILL_EXPANSION_MIN_WORDS - 5)..MaxBodyWords)

TypeChar ==
    /\ Len(prompt) < MaxHeadLen
    /\ \E c \in HeadChars : prompt' = Append(prompt, c)
    /\ skill' = NoSkill
    /\ UNCHANGED <<transcript, entries, session, turn_spans, lines, last_turn>>
    /\ UNCHANGED analysisVars
    /\ UNCHANGED ingestVars

PasteBody ==
    /\ Len(prompt) <= MaxHeadLen
    /\ \E n \in BodySizes : prompt' = prompt \o Body(n)
    /\ skill' = NoSkill
    /\ UNCHANGED <<transcript, entries, session, turn_spans, lines, last_turn>>
    /\ UNCHANGED analysisVars
    /\ UNCHANGED ingestVars

\* a call of _is_skill_expansion(prompt)
ClassifyPrompt ==
    /\ skill' = [py |-> "bool", value |-> IsSkillExpansion(prompt)]
    /\ UNCHANGED <<transcript, entries, session, turn_spans, lines, last_turn, prompt>>
    /\ UNCHANGED analysisVars
    /\ UNCHANGED ingestVars

NextSkill == TypeChar \/ PasteBody \/ ClassifyPrompt

SpecSkill == Init /\ [][NextSkill]_vars

(***************************************************************************)
(* Floats of the analysers are exact fractions num/den in lowest terms.    *)
(***************************************************************************)
RECURSIVE GCD(_, _)
GCD(a, b) == IF b = 0 THEN a ELSE GCD(b, a % b)

Rat(n, d) == [num |-> n \div GCD(n, d), den |-> d \div GCD(n, d)]

Zero == Rat(0, 1)
One == Rat(1, 1)

RatAdd(x, y) == Rat(x.num * y.den + y.num * x.den, x.den * y.den)
RatSub(x, y) == Rat(x.num * y.den - y.num * x.den, x.den * y.den)
RatLess(x, y) == x.num * y.den < y.num * x.den

RECURSIVE RatSum(_)
RatSum(xs) == IF xs = << >> THEN Zero ELSE RatAdd(Head(xs), RatSum(Tail(xs)))

\* statistics.mean(xs) of a non-empty list
Mean(xs) == Rat(RatSum(xs).num, RatSum(xs).den * Len(xs))

(***************************************************************************)
(* str methods used by the analysers.                                      *)
(***************************************************************************)
UPPERCASE ==
    <<"A", "B", "C", "D", "E", "F", "G", "H", "I", "J", "K", "L", "M",
      "N", "O", "P", "Q", "R", "S", "T", "U", "V", "W", "X", "Y", "Z">>
LOWERCASE ==
    <<"a", "b", "c", "d", "e", "f", "g", "h", "i", "j", "k", "l", "m",
      "n", "o", "p", "q", "r", "s", "t", "u", "v", "w", "x", "y", "z">>

LowerChar(c) ==
    IF c \in {UPPERCASE[i] : i \in 1..26}
    THEN LOWERCASE[CHOOSE i \in 1..26 : UPPERCASE[i] = c]
    ELSE c

RECURSIVE Lower(_)
\* s.lower()
Lower(s) == IF s = << >> THEN << >> ELSE <<LowerChar(Head(s))>> \o Lower(Tail(s))

\* `sub in s`
Contains(s, sub) ==
    \E i \in 0..(Len(s) - Len(sub)) : SubSeq(s, i + 1, i + Len(sub)) = sub

RECURSIVE Split(_)
\* s.split()
Split(s) ==
    LET t == LStrip(s)
        ends == {i \in 1..Len(t) : t[i] \in WHITESPACE}
        e == IF ends = {} THEN Len(t) + 1
             ELSE CHOOSE i \in ends : \A j \in ends : i <= j
    IN IF t = << >> THEN << >>
       ELSE <<SubSeq(t, 1, e - 1)>> \o Split(SubSeq(t, e, Len(t)))

\* the character U+0060, which the lexer of TLA+ does not accept in a string
BACKQUOTE == "<backquote>"

\* string.punctuation
PUNCTUATION ==
    {"!", "\"", "#", "$", "%", "&", "'", "(", ")", "*", "+", ",", "-",
     ".", "/", ":", ";", "<", "=", ">", "?", "@", "[", "\\", "]", "^",
     "_", BACKQUOTE,
     "{", "|", "}", "~"}

RECURSIVE LStripChars(_, _)
LStripChars(s, chars) ==
    IF s = << >> \/ Head(s) \notin chars THEN s ELSE LStripChars(Tail(s), chars)

RECURSIVE RStripChars(_, _)
RStripChars(s, chars) ==
    IF s = << >> \/ s[Len(s)] \notin chars THEN s
    ELSE RStripChars(SubSeq(s, 1, Len(s) - 1), chars)

\* s.strip(chars)
StripChars(s, chars) == RStripChars(LStripChars(s, chars), chars)

(***************************************************************************)
(* Constants of the effectiveness analysis.                                *)
(***************************************************************************)
IMPERATIVE_VERBS ==
    {<<"f", "i", "x">>, <<"a", "d", "d">>, <<"m", "a", "k", "e">>,
     <<"c", "r", "e", "a", "t", "e">>, <<"u", "p", "d", "a", "t", "e">>,
     <<"c", "h", "a", "n", "g", "e">>, <<"r", "e", "m", "o", "v", "e">>,
     <<"d", "e", "l", "e", "t", "e">>, <<"w", "r", "i", "t", "e">>,
     <<"r", "e", "a", "d">>, <<"s", "h", "o", "w">>, <<"r", "u", "n">>,
     <<"b", "u", "i", "l", "d">>,
     <<"i", "m", "p", "l", "e", "m", "e", "n", "t">>,
     <<"m", "o", "v", "e">>, <<"r", "e", "n", "a", "m", "e">>,
     <<"r", "e", "f", "a", "c", "t", "o", "r">>, <<"t", "e", "s", "t">>,
     <<"c", "h", "e", "c", "k">>, <<"f", "i", "n", "d">>,
     <<"s", "e", "a", "r", "c", "h">>, <<"l", "o", "o", "k">>,
     <<"u", "s", "e">>, <<"t", "r", "y">>, <<"s", "e", "t">>,
     <<"g", "e", "t">>, <<"p", "u", "t">>,
     <<"i", "n", "s", "t", "a", "l", "l">>,
     <<"d", "e", "p", "l", "o", "y">>, <<"p", "u", "s", "h">>,
     <<"p", "u", "l", "l">>, <<"m", "e", "r", "g", "e">>,
     <<"r", "e", "v", "e", "r", "t">>, <<"u", "n", "d", "o">>,
     <<"d", "o">>, <<"g", "o">>, <<"s", "t", "o", "p">>,
     <<"s", "t", "a", "r", "t">>, <<"o", "p", "e", "n">>,
     <<"c", "l", "o", "s", "e">>, <<"l", "i", "s", "t">>,
     <<"p", "r", "i", "n", "t">>, <<"l", "o", "g">>,
     <<"d", "e", "b", "u", "g">>, <<"e", "x", "p", "l", "a", "i", "n">>,
     <<"d", "e", "s", "c", "r", "i", "b", "e">>,
     <<"s", "u", "m", "m", "a", "r", "i", "z", "e">>,
     <<"a", "n", "a", "l", "y", "z", "e">>,
     <<"c", "o", "m", "p", "a", "r", "e">>,
     <<"r", "e", "v", "i", "e", "w">>, <<"c", "l", "e", "a", "n">>,
     <<"f", "o", "r", "m", "a", "t">>, <<"s", "o", "r", "t">>,
     <<"f", "i", "l", "t", "e", "r">>, <<"g", "r", "o", "u", "p">>,
     <<"s", "p", "l", "i", "t">>, <<"j", "o", "i", "n">>,
     <<"c", "o", "m", "b", "i", "n", "e">>,
     <<"c", "o", "n", "v", "e", "r", "t">>,
     <<"e", "x", "t", "r", "a", "c", "t">>, <<"p", "a", "r", "s", "e">>,
     <<"v", "a", "l", "i", "d", "a", "t", "e">>,
     <<"v", "e", "r", "i", "f", "y">>, <<"e", "n", "s", "u", "r", "e">>,
     <<"h", "a", "n", "d", "l", "e">>, <<"c", "a", "t", "c", "h">>,
     <<"t", "h", "r", "o", "w">>, <<"r", "a", "i", "s", "e">>,
     <<"r", "e", "t", "u", "r", "n">>, <<"p", "a", "s", "s">>,
     <<"c", "a", "l", "l">>, <<"i", "n", "v", "o", "k", "e">>,
     <<"a", "p", "p", "l", "y">>, <<"m", "a", "p">>,
     <<"r", "e", "d", "u", "c", "e">>, <<"w", "r", "a", "p">>,
     <<"u", "n", "w", "r", "a", "p">>,
     <<"f", "l", "a", "t", "t", "e", "n">>, <<"c", "o", "p", "y">>,
     <<"c", "l", "o", "n", "e">>, <<"e", "x", "t", "e", "n", "d">>,
     <<"i", "m", "p", "o", "r", "t">>, <<"e", "x", "p", "o", "r", "t">>,
     <<"r", "e", "q", "u", "i", "r", "e">>,
     <<"i", "n", "c", "l", "u", "d", "e">>, <<"l", "o", "a", "d">>,
     <<"s", "a", "v", "e">>, <<"s", "t", "o", "r", "e">>,
     <<"f", "e", "t", "c", "h">>, <<"s", "e", "n", "d">>,
     <<"p", "o", "s", "t">>, <<"p", "a", "t", "c", "h">>}

CORRECTION_MARKERS ==
    <<<<"n", "o", ",">>, <<"a", "c", "t", "u", "a", "l", "l", "y">>,
      <<"i", "n", "s", "t", "e", "a", "d">>,
      <<"n", "o", "t", " ", "w", "h", "a", "t", " ", "i">>,
      <<"i", " ", "m", "e", "a", "n", "t">>,
      <<"t", "h", "a", "t", "'", "s", " ", "w", "r", "o", "n", "g">>,
      <<"t", "r", "y", " ", "a", "g", "a", "i", "n">>,
      <<"l", "e", "t", " ", "m", "e", " ", "r", "e", "p", "h", "r", "a", "s", "e">>>>

(***************************************************************************)
(* compute_effectiveness_signals.  A turn is the dict built by             *)
(* parse_session; indices of turns are 1-based here and 0-based in the     *)
(* source.                                                                 *)
(***************************************************************************)
\* _is_correction(prompt)
IsCorrection(p) ==
    \E k \in 1..Len(CORRECTION_MARKERS) : Contains(Lower(p), CORRECTION_MARKERS[k])

\* _classify_prompt(prompt)
Classify_Prompt(p) ==
    IF \E i \in 1..Len(p) : p[i] = "?" THEN "question"
    ELSE IF /\ Split(p) # << >>
            /\ StripChars(Lower(Split(p)[1]), PUNCTUATION) \in IMPERATIVE_VERBS
         THEN "imperative"
    ELSE "statement"

\* _tool_scatter_for_turn(turn)
ToolScatterForTurn(turn) ==
    LET tools == Get(turn, "tools", << >>)
        files == {Get(tools[i], "files_touched", << >>) : i \in 1..Len(tools)}
                     \ {<< >>}
    IN IF tools = << >> THEN Zero ELSE Rat(Cardinality(files), Len(tools))

\* the keys of style_data, in the order of the dict
STYLES == <<"question", "imperative", "statement">>

EmptyStyle ==
    [count |-> 0, correction_rate |-> Zero, avg_tool_count |-> Zero,
     avg_tokens |-> Zero]

\* `empty`
EmptySignals ==
    [correction_rate |-> Zero,
     corrections_total |-> 0,
     eligible_turns |-> 0,
     per_style_effectiveness |->
         [question |-> EmptyStyle, imperative |-> EmptyStyle,
          statement |-> EmptyStyle],
     tool_scatter |->
         [question |-> Zero, imperative |-> Zero, statement |-> Zero,
          overall |-> Zero],
     first_response_acceptance |-> One,
     session_progression |->
         [first_half_correction_rate |-> Zero,
          second_half_correction_rate |-> Zero,
          warming_up |-> FALSE]]

\* `turns = [t for t in turns if not _is_skill_expansion(t.get("prompt", ""))]`
FilterSkillExpansions(ts) ==
    LET Organic(t) == ~IsSkillExpansion(Get(t, "prompt", << >>))
    IN SelectSeq(ts, Organic)

\* bug: the session of the two turns is not compared
SameSession_AnyAdjacent(ts, i) == TRUE

\* `turns[i].get("session_id") == turns[i + 1].get("session_id")`
SameSession(ts, i) ==
    Get(ts[i], "session_id", PyNone) = Get(ts[i + 1], "session_id", PyNone)

RECURSIVE BuildPairs(_, _)
\* the loop that builds `pairs`, from index i on
BuildPairs(ts, i) ==
    IF i >= Len(ts) THEN << >>
    ELSE (IF SameSession(ts, i)
          THEN <<[idx |-> i, corrected |-> IsCorrection(ts[i + 1].prompt)]>>
          ELSE << >>) \o BuildPairs(ts, i + 1)

\* `sum(1 for _, c in pairs if c)`
Corrections(ps) ==
    LET Corrected(pr) == pr.corrected IN Len(SelectSeq(ps, Corrected))

\* bug: the rate is taken over the turns, not over the eligible pairs
CorrectionRate_OverTurns(corrections, eligible, n) == Rat(corrections, n)

\* `corrections_total / eligible`
CorrectionRate(corrections, eligible, n) == Rat(corrections, eligible)

\* bug: a pair is bucketed under the style of its later turn
StylePairs_LaterTurn(ts, ps, style) ==
    LET OfStyle(pr) == Classify_Prompt(ts[pr.idx + 1].prompt) = style
    IN SelectSeq(ps, OfStyle)

\* the pairs whose first turn is of the style: style_data[style]
StylePairs(ts, ps, style) ==
    LET OfStyle(pr) == Classify_Prompt(ts[pr.idx].prompt) = style
    IN SelectSeq(ps, OfStyle)

ToolCounts(ts, ps) ==
    [k \in 1..Len(ps) |-> Rat(Len(Get(ts[ps[k].idx], "tools", << >>)), 1)]

TokenTotals(ts, ps) ==
    [k \in 1..Len(ps) |->
        LET m == Get(ts[ps[k].idx], "metrics", EmptyDict)
        IN Rat(Get(m, "input_tokens", 0) + Get(m, "output_tokens", 0), 1)]

Scatters(ts, ps) == [k \in 1..Len(ps) |-> ToolScatterForTurn(ts[ps[k].idx])]

PerStyle(ts, ps, style) ==
    LET sd == StylePairs(ts, ps, style)
    IN IF Len(sd) > 0
       THEN [count |-> Len(sd),
             correction_rate |-> Rat(Corrections(sd), Len(sd)),
             avg_tool_count |-> Mean(ToolCounts(ts, sd)),
             avg_tokens |-> Mean(TokenTotals(ts, sd))]
       ELSE EmptyStyle

StyleScatter(ts, ps, style) ==
    LET sc == Scatters(ts, StylePairs(ts, ps, style))
    IN IF sc # << >> THEN Mean(sc) ELSE Zero

AllScatters(ts, ps) ==
    Scatters(ts, StylePairs(ts, ps, STYLES[1]))
        \o Scatters(ts, StylePairs(ts, ps, STYLES[2]))
        \o Scatters(ts, StylePairs(ts, ps, STYLES[3]))

ToolScatter(ts, ps) ==
    [question |-> StyleScatter(ts, ps, "question"),
     imperative |-> StyleScatter(ts, ps, "imperative"),
     statement |-> StyleScatter(ts, ps, "statement"),
     overall |-> IF AllScatters(ts, ps) # << >>
                 THEN Mean(AllScatters(ts, ps)) ELSE Zero]

\* `first_half = pairs[:mid] if mid > 0 else pairs`
FirstHalf(ps) ==
    LET mid == Len(ps) \div 2
    IN IF mid > 0 THEN SubSeq(ps, 1, mid) ELSE ps

\* `second_half = pairs[mid:] if mid > 0 else pairs`
SecondHalf(ps) ==
    LET mid == Len(ps) \div 2
    IN IF mid > 0 THEN SubSeq(ps, mid + 1, Len(ps)) ELSE ps

HalfRate(half) ==
    IF half # << >> THEN Rat(Corrections(half), Len(half)) ELSE Zero

\* bug: equal rates count as warming up
WarmingUp_NonStrict(first_cr, second_cr) == ~RatLess(first_cr, second_cr)

\* `first_cr > second_cr`
WarmingUp(first_cr, second_cr) == RatLess(second_cr, first_cr)

ComputeEffectivenessSignals(all_turns) ==
    LET ts == FilterSkillExpansions(all_turns)
        pairs == BuildPairs(ts, 1)
        eligible == Len(pairs)
        corrections_total == Corrections(pairs)
        correction_rate == CorrectionRate(corrections_total, eligible, Len(ts))
        first_cr == HalfRate(FirstHalf(pairs))
        second_cr == HalfRate(SecondHalf(pairs))
    IN IF Len(ts) < 2 THEN EmptySignals
       ELSE IF pairs = << >> THEN EmptySignals
       ELSE [correction_rate |-> correction_rate,
             corrections_total |-> corrections_total,
             eligible_turns |-> eligible,
             per_style_effectiveness |->
                 [question |-> PerStyle(ts, pairs, "question"),
                  imperative |-> PerStyle(ts, pairs, "imperative"),
                  statement |-> PerStyle(ts, pairs, "statement")],
             tool_scatter |-> ToolScatter(ts, pairs),
             first_response_acceptance |-> RatSub(One, correction_rate),
             session_progression |->
                 [first_half_correction_rate |-> first_cr,
                  second_half_correction_rate |-> second_cr,
                  warming_up |-> WarmingUp(first_cr, second_cr)]]

(***************************************************************************)
(* SpecSignals: a collection of turns of two sessions is gathered and      *)
(* passed to compute_effectiveness_signals.                                *)
(***************************************************************************)
\* the tool dict built by the tests' _tool(name, file_path)
Tool(name, file_path) ==
    [tool_name |-> name,
     input_summary |-> IF file_path # << >> THEN file_path ELSE name,
     files_touched |-> file_path,
     is_subagent |-> (name = S_Task)]

\* the turn dict built by the tests' _turn(prompt, tools, session_id)
AnalysedTurn(p, tools, session_id) ==
    [prompt |-> p, response |-> <<"r">>, tools |-> tools, blocks |-> << >>,
     metrics |-> [model |-> "claude-opus-4-6", input_tokens |-> 100,
                  output_tokens |-> 50, cache_read_tokens |-> 0,
                  cache_creation_tokens |-> 0, stop_reason |-> "end_turn"],
     timestamp |-> "t1", session_id |-> session_id]

P_Fix == <<"F", "i", "x", " ", "t", "h", "e", " ", "b", "u", "g">>
P_Actually == <<"A", "C", "T", "U", "A", "L", "L", "Y", ",", " ", "n", "o">>
P_Why == <<"W", "h", "y", "?">>
P_Skill == <<"#", " ", "a", "\n">> \o Body(SKILL_EXPANSION_MIN_WORDS)

SignalTurns ==
    {AnalysedTurn(P_Fix, << >>, "sess-1"),
     AnalysedTurn(P_Fix, << >>, "sess-2"),
     AnalysedTurn(P_Actually, << >>, "sess-1"),
     AnalysedTurn(P_Actually, << >>, "sess-2"),
     AnalysedTurn(P_Why, << >>, "sess-1"),
     AnalysedTurn(P_Skill, << >>, "sess-1")}

\* one more turn is gathered
Gather(turn) ==
    /\ Len(turns) < MaxTurns
    /\ turns' = Append(turns, turn)
    /\ signals' = NoSignals
    /\ UNCHANGED <<parseVars, linguisticsVars>>
    /\ UNCHANGED ingestVars

GatherSignalTurn == \E turn \in SignalTurns : Gather(turn)

\* a call of compute_effectiveness_signals(turns)
ComputeEffectivenessSignalsCall ==
    /\ signals' = ComputeEffectivenessSignals(turns)
    /\ UNCHANGED <<parseVars, turns, linguisticsVars>>
    /\ UNCHANGED ingestVars

NextSignals == GatherSignalTurn \/ ComputeEffectivenessSignalsCall

SpecSignals == Init /\ [][NextSignals]_vars

(***************************************************************************)
(* SpecProgression: longer collections of plain prompts and corrections,   *)
(* with a change of session, for session_progression.                      *)
(***************************************************************************)
ProgressionTurns ==
    {AnalysedTurn(P_Fix, << >>, "sess-1"),
     AnalysedTurn(P_Actually, << >>, "sess-1"),
     AnalysedTurn(P_Fix, << >>, "sess-2")}

GatherProgressionTurn ==
    /\ Len(turns) < MaxSessionTurns
    /\ \E turn \in ProgressionTurns : turns' = Append(turns, turn)
    /\ signals' = NoSignals
    /\ UNCHANGED <<parseVars, linguisticsVars>>
    /\ UNCHANGED ingestVars

NextProgression == GatherProgressionTurn \/ ComputeEffectivenessSignalsCall

SpecProgression == Init /\ [][NextProgression]_vars

(***************************************************************************)
(* SpecScatter: turns whose tool calls touch the same file, different      *)
(* files or no file.                                                       *)
(***************************************************************************)
F_A == <<"/", "a", ".", "p", "y">>
F_B == <<"/", "b", ".", "p", "y">>

ScatterTurns ==
    {AnalysedTurn(P_Fix, <<Tool(S_Read, F_A), Tool(S_Read, F_B)>>, "sess-1"),
     AnalysedTurn(P_Why, <<Tool(S_Read, F_A), Tool(S_Edit, F_A)>>, "sess-1"),
     AnalysedTurn(P_Fix, << >>, "sess-1"),
     AnalysedTurn(P_Actually, <<Tool(S_Bash, << >>)>>, "sess-2")}

GatherScatterTurn == \E turn \in ScatterTurns : Gather(turn)

NextScatter == GatherScatterTurn \/ ComputeEffectivenessSignalsCall

SpecScatter == Init /\ [][NextScatter]_vars

(***************************************************************************)
(* Constants of the linguistic analysis.                                   *)
(***************************************************************************)
STOP_WORDS ==
    {<<"t", "h", "e">>, <<"a">>, <<"a", "n">>, <<"a", "n", "d">>,
     <<"o", "r">>, <<"b", "u", "t">>, <<"i", "n">>, <<"o", "n">>,
     <<"a", "t">>, <<"t", "o">>, <<"f", "o", "r">>, <<"o", "f">>,
     <<"w", "i", "t", "h">>, <<"b", "y">>, <<"f", "r", "o", "m">>,
     <<"i", "s">>, <<"i", "t">>, <<"t", "h", "i", "s">>,
     <<"t", "h", "a", "t">>, <<"a", "r", "e">>, <<"w", "a", "s">>,
     <<"b", "e">>, <<"h", "a", "v", "e">>, <<"h", "a", "s">>,
     <<"h", "a", "d">>, <<"d", "o">>, <<"d", "o", "e", "s">>,
     <<"d", "i", "d">>, <<"w", "i", "l", "l">>,
     <<"w", "o", "u", "l", "d">>, <<"c", "o", "u", "l", "d">>,
     <<"s", "h", "o", "u", "l", "d">>, <<"m", "a", "y">>,
     <<"m", "i", "g", "h", "t">>, <<"c", "a", "n">>,
     <<"s", "h", "a", "l", "l">>, <<"n", "o", "t">>, <<"n", "o">>,
     <<"s", "o">>, <<"i", "f">>, <<"t", "h", "e", "n">>,
     <<"t", "h", "a", "n">>, <<"t", "o", "o">>, <<"v", "e", "r", "y">>,
     <<"j", "u", "s", "t">>, <<"a", "b", "o", "u", "t">>, <<"u", "p">>,
     <<"o", "u", "t">>, <<"a", "l", "l">>, <<"a", "l", "s", "o">>,
     <<"a", "s">>, <<"i", "n", "t", "o">>, <<"l", "i", "k", "e">>,
     <<"t", "h", "r", "o", "u", "g", "h">>, <<"a", "f", "t", "e", "r">>,
     <<"b", "e", "f", "o", "r", "e">>,
     <<"b", "e", "t", "w", "e", "e", "n">>, <<"e", "a", "c", "h">>,
     <<"m", "o", "r", "e">>, <<"s", "o", "m", "e">>,
     <<"s", "u", "c", "h">>, <<"o", "n", "l", "y">>,
     <<"o", "t", "h", "e", "r">>, <<"n", "e", "w">>,
     <<"w", "h", "e", "n">>, <<"w", "h", "a", "t">>,
     <<"w", "h", "i", "c", "h">>, <<"w", "h", "e", "r", "e">>,
     <<"w", "h", "o">>, <<"h", "o", "w">>, <<"i">>, <<"m", "e">>,
     <<"m", "y">>, <<"w", "e">>, <<"o", "u", "r">>, <<"y", "o", "u">>,
     <<"y", "o", "u", "r">>, <<"h", "e">>, <<"s", "h", "e">>,
     <<"t", "h", "e", "y">>, <<"t", "h", "e", "m">>, <<"i", "t", "s">>,
     <<"b", "e", "e", "n">>, <<"b", "e", "i", "n", "g">>, <<"a", "m">>,
     <<"w", "e", "r", "e">>, <<"h", "e", "r", "e">>,
     <<"t", "h", "e", "r", "e">>}

HEDGING_PHRASES ==
    <<<<"m", "a", "y", "b", "e">>, <<"p", "e", "r", "h", "a", "p", "s">>,
      <<"i", " ", "t", "h", "i", "n", "k">>,
      <<"n", "o", "t", " ", "s", "u", "r", "e">>,
      <<"w", "h", "a", "t", " ", "i", "f">>,
      <<"c", "o", "u", "l", "d", " ", "w", "e">>,
      <<"m", "i", "g", "h", "t">>>>

ASSERTIVE_PHRASES ==
    <<<<"m", "u", "s", "t">>, <<"a", "l", "w", "a", "y", "s">>,
      <<"d", "e", "f", "i", "n", "i", "t", "e", "l", "y">>,
      <<"n", "e", "e", "d", " ", "t", "o">>,
      <<"s", "h", "o", "u", "l", "d">>,
      <<"h", "a", "v", "e", " ", "t", "o">>,
      <<"m", "a", "k", "e", " ", "s", "u", "r", "e">>,
      <<"e", "n", "s", "u", "r", "e">>>>

(***************************************************************************)
(* Helpers of compute_prompt_linguistics.  A dict whose order of insertion *)
(* matters is the sequence of its items.                                   *)
(***************************************************************************)
\* _strip_punctuation(word)
StripPunctuation(word) == StripChars(word, PUNCTUATION)

RECURSIVE Bump(_, _, _)
\* `counts[key] = counts.get(key, 0) + c`: a new key goes last
Bump(counts, key, c) ==
    IF counts = << >> THEN <<[ngram |-> key, count |-> c]>>
    ELSE IF Head(counts).ngram = key
         THEN <<[ngram |-> key, count |-> Head(counts).count + c]>> \o Tail(counts)
    ELSE <<Head(counts)>> \o Bump(Tail(counts), key, c)

\* the words of _extract_ngrams: stripped of punctuation, empty ones removed
NgramWords(text) ==
    LET raw == Split(Lower(text))
        stripped == [k \in 1..Len(raw) |-> StripPunctuation(raw[k])]
        NonEmpty(w) == w # << >>
    IN SelectSeq(stripped, NonEmpty)

RECURSIVE NgramLoop(_, _, _, _)
\* the loop of _extract_ngrams from window i on
NgramLoop(words, n, i, counts) ==
    IF i > Len(words) - n + 1 THEN counts
    ELSE LET gram == SubSeq(words, i, i + n - 1)
         IN IF \A k \in 1..n : gram[k] \in STOP_WORDS
            THEN NgramLoop(words, n, i + 1, counts)
            ELSE NgramLoop(words, n, i + 1,
                           Bump(counts, Join(<<" ">>, gram), 1))

\* _extract_ngrams(text, n)
ExtractNgrams(text, n) == NgramLoop(NgramWords(text), n, 1, << >>)

RECURSIVE MergeCounts(_, _)
\* `for gram, c in ....items(): totals[gram] = totals.get(gram, 0) + c`
MergeCounts(totals, items) ==
    IF items = << >> THEN totals
    ELSE MergeCounts(Bump(totals, Head(items).ngram, Head(items).count),
                     Tail(items))

RECURSIVE NgramCounts(_, _, _)
\* bigram_counts (n = 2) and trigram_counts (n = 3) over the prompts
NgramCounts(prompts, n, totals) ==
    IF prompts = << >> THEN totals
    ELSE NgramCounts(Tail(prompts), n,
                     MergeCounts(totals, ExtractNgrams(Head(prompts), n)))

\* bug: an item is placed before the items of equal count
InsertByCount_BeforeEqual(sorted, item) ==
    LET k == Cardinality({j \in 1..Len(sorted) : sorted[j].count > item.count})
    IN SubSeq(sorted, 1, k) \o <<item>> \o SubSeq(sorted, k + 1, Len(sorted))

\* a stable sort places an item after the items of greater or equal count
InsertByCount(sorted, item) ==
    LET k == Cardinality({j \in 1..Len(sorted) : sorted[j].count >= item.count})
    IN SubSeq(sorted, 1, k) \o <<item>> \o SubSeq(sorted, k + 1, Len(sorted))

RECURSIVE SortByCount(_, _)
\* `sorted(counts.items(), key=lambda x: x[1], reverse=True)`
SortByCount(items, sorted) ==
    IF items = << >> THEN sorted
    ELSE SortByCount(Tail(items), InsertByCount(sorted, Head(items)))

\* `sorted(...)[:15]`
TopNgrams(counts) == Slice(SortByCount(counts, << >>), 15)

RECURSIVE CountFrom(_, _, _)
\* s.count(sub): the occurrences of sub in s that do not overlap, from i on
CountFrom(s, sub, i) ==
    LET hits == {j \in i..(Len(s) - Len(sub) + 1) :
                    SubSeq(s, j, j + Len(sub) - 1) = sub}
    IN IF hits = {} THEN 0
       ELSE LET j == CHOOSE h \in hits : \A g \in hits : h <= g
            IN 1 + CountFrom(s, sub, j + Len(sub))

RECURSIVE CountPhrases(_, _)
\* `{phrase: lower.count(phrase) for phrase in phrases}`
CountPhrases(lower, phrases) ==
    IF phrases = << >> THEN << >>
    ELSE <<[phrase |-> Head(phrases), count |-> CountFrom(lower, Head(phrases), 1)]>>
             \o CountPhrases(lower, Tail(phrases))

\* _count_phrase_occurrences(text, phrases), in the order of phrases
CountPhraseOccurrences(text, phrases) == CountPhrases(Lower(text), phrases)

\* s[i] exists and matches \w
IsWordAt(s, i) == i \in 1..Len(s) /\ s[i] \in WORD_CHARS

\* \b matches just before s[i]
Boundary(s, i) == IsWordAt(s, i - 1) # IsWordAt(s, i)

\* len(re.findall(r"\b(alt1|alt2|...)\b", s))
FindAll(s, alts) ==
    Cardinality({i \in 1..Len(s) :
                    /\ Boundary(s, i)
                    /\ \E k \in 1..Len(alts) :
                           /\ i + Len(alts[k]) - 1 <= Len(s)
                           /\ SubSeq(s, i, i + Len(alts[k]) - 1) = alts[k]
                           /\ Boundary(s, i + Len(alts[k]))})

\* r"\bi (want|need|think)\b"
RE_I == <<<<"i", " ", "w", "a", "n", "t">>,
          <<"i", " ", "n", "e", "e", "d">>,
          <<"i", " ", "t", "h", "i", "n", "k">>>>
\* r"\bwe (should|could|need)\b"
RE_WE == <<<<"w", "e", " ", "s", "h", "o", "u", "l", "d">>,
          <<"w", "e", " ", "c", "o", "u", "l", "d">>,
          <<"w", "e", " ", "n", "e", "e", "d">>>>
\* r"\byou (should|can|need)\b"
RE_YOU == <<<<"y", "o", "u", " ", "s", "h", "o", "u", "l", "d">>,
          <<"y", "o", "u", " ", "c", "a", "n">>,
          <<"y", "o", "u", " ", "n", "e", "e", "d">>>>
\* r"\blet'?s\b"
RE_LETS == <<<<"l", "e", "t", "s">>, <<"l", "e", "t", "'", "s">>>>

(***************************************************************************)
(* compute_prompt_linguistics.                                             *)
(***************************************************************************)
None == [py |-> "NoneType"]
Float(x) == [py |-> "float", value |-> x]
ZeroDivisionError == [py |-> "ZeroDivisionError"]

RECURSIVE SumInts(_)
SumInts(xs) == IF xs = << >> THEN 0 ELSE Head(xs) + SumInts(Tail(xs))

\* statistics.mean of a non-empty list of ints
MeanInts(xs) == Rat(SumInts(xs), Len(xs))

RECURSIVE SortAsc(_)
\* sorted(xs) of a list of ints
SortAsc(xs) ==
    IF xs = << >> THEN << >>
    ELSE LET rest == SortAsc(Tail(xs))
             k == Cardinality({j \in 1..Len(rest) : rest[j] < Head(xs)})
         IN SubSeq(rest, 1, k) \o <<Head(xs)>> \o SubSeq(rest, k + 1, Len(rest))

\* statistics.median of a non-empty list of ints
Median(xs) ==
    LET s == SortAsc(xs)
        n == Len(xs)
    IN IF n % 2 = 1 THEN Rat(s[(n + 1) \div 2], 1)
       ELSE Rat(s[n \div 2] + s[(n \div 2) + 1], 2)

\* statistics.stdev of two or more ints: the square root of the sample variance
Stdev(xs) ==
    LET n == Len(xs)
        squares == [k \in 1..n |-> xs[k] * xs[k]]
    IN [sqrt_of |-> Rat(n * SumInts(squares) - SumInts(xs) * SumInts(xs),
                        n * (n - 1))]

MinOfSeq(xs) == CHOOSE x \in {xs[k] : k \in 1..Len(xs)} :
                    \A k \in 1..Len(xs) : x <= xs[k]
MaxOfSeq(xs) == CHOOSE x \in {xs[k] : k \in 1..Len(xs)} :
                    \A k \in 1..Len(xs) : x >= xs[k]

\* `[t["prompt"] for t in turns if t["prompt"].strip() and not _is_skill_expansion(..)]`
OrganicPrompts(ts) ==
    LET Organic(t) == Strip(t.prompt) # << >> /\ ~IsSkillExpansion(t.prompt)
        kept == SelectSeq(ts, Organic)
    IN [k \in 1..Len(kept) |-> kept[k].prompt]

RECURSIVE ZeroCounts(_)
\* `{p: 0 for p in phrases}`
ZeroCounts(phrases) ==
    IF phrases = << >> THEN << >>
    ELSE <<[phrase |-> Head(phrases), count |-> 0]>> \o ZeroCounts(Tail(phrases))

\* `empty`
EmptyLinguistics ==
    [question_ratio |-> Zero,
     imperative_ratio |-> Zero,
     prompt_length |->
         [median |-> Zero, mean |-> Zero, min |-> 0, max |-> 0,
          stddev |-> [sqrt_of |-> Zero], count |-> 0],
     frequent_ngrams |-> [bigrams |-> << >>, trigrams |-> << >>],
     certainty_markers |->
         [hedging_count |-> 0, assertive_count |-> 0, ratio |-> None,
          hedging_phrases |-> ZeroCounts(HEDGING_PHRASES),
          assertive_phrases |-> ZeroCounts(ASSERTIVE_PHRASES)],
     agency_framing |->
         [i_count |-> 0, we_count |-> 0, you_count |-> 0, lets_count |-> 0,
          dominant |-> "none"],
     prompt_length_by_position |->
         [first_quarter_avg |-> Zero, middle_half_avg |-> Zero,
          last_quarter_avg |-> Zero]]

RECURSIVE AddCounts(_, _)
\* `for phrase, c in found.items(): totals[phrase] += c`
AddCounts(totals, found) ==
    IF totals = << >> THEN << >>
    ELSE <<[phrase |-> Head(totals).phrase,
            count |-> Head(totals).count + Head(found).count]>>
             \o AddCounts(Tail(totals), Tail(found))

RECURSIVE PhraseTotals(_, _, _)
\* hedging_totals / assertive_totals after the loop over the prompts
PhraseTotals(prompts, phrases, totals) ==
    IF prompts = << >> THEN totals
    ELSE PhraseTotals(Tail(prompts), phrases,
                      AddCounts(totals, CountPhraseOccurrences(Head(prompts), phrases)))

\* `sum(totals.values())`
TotalCount(totals) == SumInts([k \in 1..Len(totals) |-> totals[k].count])

\* bug: the division is not guarded
CertaintyRatio_Unguarded(assertive_count, hedging_count) ==
    IF hedging_count = 0 THEN ZeroDivisionError
    ELSE Float(Rat(assertive_count, hedging_count))

\* `(assertive_count / hedging_count) if hedging_count > 0 else None`
CertaintyRatio(assertive_count, hedging_count) ==
    IF hedging_count > 0 THEN Float(Rat(assertive_count, hedging_count))
    ELSE None

\* `sum(len(re.findall(pattern, p.lower())) for p in prompts)`
AgencyCount(prompts, alts) ==
    SumInts([k \in 1..Len(prompts) |-> FindAll(Lower(prompts[k]), alts)])

\* bug: among equal counts the last label wins
Dominant_LastWins(i, we, you, lets) ==
    LET m == MaxOfSeq(<<i, we, you, lets>>)
    IN IF m = 0 THEN "none"
       ELSE IF lets = m THEN "lets"
       ELSE IF you = m THEN "you"
       ELSE IF we = m THEN "we"
       ELSE "i"

\* `"none" if max_agency == 0 else max(agency, key=agency.get)`
Dominant(i, we, you, lets) ==
    LET m == MaxOfSeq(<<i, we, you, lets>>)
    IN IF m = 0 THEN "none"
       ELSE IF i = m THEN "i"
       ELSE IF we = m THEN "we"
       ELSE IF you = m THEN "you"
       ELSE "lets"

NgramItems(top) == [k \in 1..Len(top) |-> [ngram |-> top[k].ngram, count |-> top[k].count]]

\* bug: the quarter is rounded up
Quarter_Ceiling(count) == IF (count + 3) \div 4 > 1 THEN (count + 3) \div 4 ELSE 1

\* max(1, count // 4)
Quarter(count) == IF count \div 4 > 1 THEN count \div 4 ELSE 1

\* q1_end and q3_start (lines 605-606)
Q1End(count) == Quarter(count)
Q3Start(count) == count - Quarter(count)

\* word_counts[:q1_end]
FirstQuarter(word_counts) == SubSeq(word_counts, 1, Q1End(Len(word_counts)))

\* word_counts[q1_end:q3_start] if q1_end < q3_start else word_counts
MiddleHalf(word_counts) ==
    IF Q1End(Len(word_counts)) < Q3Start(Len(word_counts))
    THEN SubSeq(word_counts, Q1End(Len(word_counts)) + 1, Q3Start(Len(word_counts)))
    ELSE word_counts

\* word_counts[q3_start:]
LastQuarter(word_counts) ==
    SubSeq(word_counts, Q3Start(Len(word_counts)) + 1, Len(word_counts))

ComputePromptLinguistics(ts) ==
    LET prompts == OrganicPrompts(ts)
        count == Len(prompts)
        questions ==
            Cardinality({k \in 1..count : \E j \in 1..Len(prompts[k]) :
                                              prompts[k][j] = "?"})
        imperatives ==
            Cardinality({k \in 1..count :
                StripChars(Lower(Split(prompts[k])[1]), PUNCTUATION)
                    \in IMPERATIVE_VERBS})
        word_counts == [k \in 1..count |-> WordCount(prompts[k])]
        hedging_totals ==
            PhraseTotals(prompts, HEDGING_PHRASES, ZeroCounts(HEDGING_PHRASES))
        assertive_totals ==
            PhraseTotals(prompts, ASSERTIVE_PHRASES, ZeroCounts(ASSERTIVE_PHRASES))
        hedging_count == TotalCount(hedging_totals)
        assertive_count == TotalCount(assertive_totals)
        i_count == AgencyCount(prompts, RE_I)
        we_count == AgencyCount(prompts, RE_WE)
        you_count == AgencyCount(prompts, RE_YOU)
        lets_count == AgencyCount(prompts, RE_LETS)
        first_quarter == FirstQuarter(word_counts)
        middle_half == MiddleHalf(word_counts)
        last_quarter == LastQuarter(word_counts)
    IN IF prompts = << >> THEN EmptyLinguistics
       ELSE [question_ratio |-> Rat(questions, count),
             imperative_ratio |-> Rat(imperatives, count),
             prompt_length |->
                 [median |-> Median(word_counts),
                  mean |-> MeanInts(word_counts),
                  min |-> MinOfSeq(word_counts),
                  max |-> MaxOfSeq(word_counts),
                  stddev |-> IF count >= 2 THEN Stdev(word_counts)
                             ELSE [sqrt_of |-> Zero],
                  count |-> count],
             frequent_ngrams |->
                 [bigrams |-> NgramItems(TopNgrams(NgramCounts(prompts, 2, << >>))),
                  trigrams |-> NgramItems(TopNgrams(NgramCounts(prompts, 3, << >>)))],
             certainty_markers |->
                 [hedging_count |-> hedging_count,
                  assertive_count |-> assertive_count,
                  ratio |-> CertaintyRatio(assertive_count, hedging_count),
                  hedging_phrases |-> hedging_totals,
                  assertive_phrases |-> assertive_totals],
             agency_framing |->
                 [i_count |-> i_count, we_count |-> we_count,
                  you_count |-> you_count, lets_count |-> lets_count,
                  dominant |-> Dominant(i_count, we_count, you_count, lets_count)],
             prompt_length_by_position |->
                 [first_quarter_avg |-> MeanInts(first_quarter),
                  middle_half_avg |-> MeanInts(middle_half),
                  last_quarter_avg |-> MeanInts(last_quarter)]]

(***************************************************************************)
(* Calls of compute_prompt_linguistics.  Every dict the function returns   *)
(* is an object of the heap, which the caller may later mutate.            *)
(***************************************************************************)
\* a dict display evaluated during a call builds a new object
NewObject(h, value) ==
    LET id == Cardinality(DOMAIN h \ {0}) + 1
    IN [id |-> id, heap |-> h @@ (id :> value)]

\* bug: `empty` is built once at module level and returned by every call
EmptyObject_BuiltOnce(h) ==
    [id |-> 0, heap |-> IF 0 \in DOMAIN h THEN h ELSE h @@ (0 :> EmptyLinguistics)]

\* `empty = {...}` is evaluated inside the call
EmptyObject(h) == NewObject(h, EmptyLinguistics)

\* the object returned by compute_prompt_linguistics(ts) and the heap after it
LinguisticsReturn(h, ts) ==
    IF OrganicPrompts(ts) = << >> THEN EmptyObject(h)
    ELSE NewObject(h, ComputePromptLinguistics(ts))

\* a call of compute_prompt_linguistics(turns)
ComputePromptLinguisticsCall ==
    /\ Len(calls) < MaxCalls
    /\ LET r == LinguisticsReturn(heap, turns)
       IN /\ heap' = r.heap
          /\ calls' = Append(calls,
                 [arg |-> turns, id |-> r.id, ret |-> r.heap[r.id],
                  mutated_before |->
                      \E k \in 1..Len(calls) : heap[calls[k].id] # calls[k].ret])
    /\ UNCHANGED <<parseVars, turns, signals>>
    /\ UNCHANGED ingestVars

\* one more turn is gathered for the linguistic analysis
GatherPrompt(turn) ==
    /\ Len(turns) < MaxPrompts
    /\ turns' = Append(turns, turn)
    /\ UNCHANGED <<parseVars, signals, linguisticsVars>>
    /\ UNCHANGED ingestVars

(***************************************************************************)
(* SpecCertainty: prompts with hedging and assertive phrases.              *)
(***************************************************************************)
P_Must == 
    <<"Y", "o", "u", " ", "m", "u", "s", "t", " ", "f", "i", "x", " ",
      "t", "h", "i", "s">>
P_Maybe == 
    <<"M", "a", "y", "b", "e", " ", "w", "e", " ", "s", "h", "o", "u",
      "l", "d", " ", "t", "r", "y">>
P_Might == 
    <<"I", " ", "t", "h", "i", "n", "k", " ", "i", "t", " ", "M", "I",
      "G", "H", "T", ",", " ", "m", "a", "y", "b", "e">>

CertaintyTurns ==
    {AnalysedTurn(P_Must, << >>, "sess-1"),
     AnalysedTurn(P_Maybe, << >>, "sess-1"),
     AnalysedTurn(P_Might, << >>, "sess-1"),
     AnalysedTurn(P_Fix, << >>, "sess-1")}

GatherCertaintyTurn == \E turn \in CertaintyTurns : GatherPrompt(turn)

NextCertainty == GatherCertaintyTurn \/ ComputePromptLinguisticsCall

SpecCertainty == Init /\ [][NextCertainty]_vars

(***************************************************************************)
(* SpecAgency: prompts framed with I, we, you and let's.                   *)
(***************************************************************************)
P_IWant == 
    <<"I", " ", "w", "a", "n", "t", " ", "t", "e", "s", "t", "s", ",",
      " ", "I", " ", "n", "e", "e", "d", "e", "d", " ", "i", "t">>
P_WeShould == 
    <<"W", "e", " ", "s", "h", "o", "u", "l", "d", " ", "g", "o">>
P_YouCan == 
    <<"C", "a", "n", " ", "y", "o", "u", "?", " ", "Y", "o", "u", " ",
      "c", "a", "n", " ", "g", "o">>
P_Lets == 
    <<"L", "e", "t", "'", "s", " ", "g", "o", ",", " ", "l", "e", "t",
      "s">>

AgencyTurns ==
    {AnalysedTurn(P_IWant, << >>, "sess-1"),
     AnalysedTurn(P_WeShould, << >>, "sess-1"),
     AnalysedTurn(P_YouCan, << >>, "sess-1"),
     AnalysedTurn(P_Lets, << >>, "sess-1"),
     AnalysedTurn(P_Fix, << >>, "sess-1")}

GatherAgencyTurn == \E turn \in AgencyTurns : GatherPrompt(turn)

NextAgency == GatherAgencyTurn \/ ComputePromptLinguisticsCall

SpecAgency == Init /\ [][NextAgency]_vars

(***************************************************************************)
(* SpecNgrams: prompts with more than fifteen distinct bigrams and         *)
(* trigrams, repeated n-grams and n-grams of stop words only.              *)
(***************************************************************************)
P_Long == 
    <<"b", " ", "c", " ", "d", " ", "e", " ", "f", " ", "g", " ", "h",
      " ", "j", " ", "k", " ", "l", " ", "m", " ", "n", " ", "p", " ",
      "q", " ", "r", " ", "s", " ", "t", " ", "u">>
P_Repeat == 
    <<"T", " ", "u", ",", " ", "t", " ", "u", "!">>
P_Stops == 
    <<"t", "h", "e", " ", "a", " ", "i", "n", " ", "o", "n">>
P_Example == 
    <<"f", "o", "r", " ", "e", "x", "a", "m", "p", "l", "e", ":", " ",
      "b", " ", "c">>

NgramTurns ==
    {AnalysedTurn(P_Long, << >>, "sess-1"),
     AnalysedTurn(P_Repeat, << >>, "sess-1"),
     AnalysedTurn(P_Stops, << >>, "sess-1"),
     AnalysedTurn(P_Example, << >>, "sess-1")}

GatherNgramTurn == \E turn \in NgramTurns : GatherPrompt(turn)

NextNgrams == GatherNgramTurn \/ ComputePromptLinguisticsCall

SpecNgrams == Init /\ [][NextNgrams]_vars

(***************************************************************************)
(* SpecPurity: compute_prompt_linguistics is called again and again while  *)
(* the caller mutates the dicts it got back.                               *)
(***************************************************************************)
P_Blank == <<" ", "\n">>

PurityTurns ==
    {AnalysedTurn(P_Fix, << >>, "sess-1"),
     AnalysedTurn(P_Why, << >>, "sess-1"),
     AnalysedTurn(P_Blank, << >>, "sess-1")}

GatherPurityTurn == \E turn \in PurityTurns : GatherPrompt(turn)

\* the caller appends to a list of a dict it got back and overwrites a field
MutateResult ==
    /\ \E k \in 1..Len(calls) :
           /\ heap[calls[k].id] = calls[k].ret
           /\ heap' = [heap EXCEPT ![calls[k].id] =
                          [@ EXCEPT !.frequent_ngrams.bigrams =
                                        Append(@, [ngram |-> <<"x">>, count |-> 99]),
                                    !.agency_framing.dominant = "i"]]
    /\ UNCHANGED <<parseVars, turns, signals, calls>>
    /\ UNCHANGED ingestVars

NextPurity == GatherPurityTurn \/ ComputePromptLinguisticsCall \/ MutateResult

SpecPurity == Init /\ [][NextPurity]_vars

(***************************************************************************)
(* transcript_reader: _get_first_timestamp, find_sessions and              *)
(* get_turns_since.  The transcript directory is the sequence of its files *)
(* in the order iterdir yields them; a file has a name, a suffix and the   *)
(* raw lines of its content.                                               *)
(***************************************************************************)
DirFile(name, suffix, content) == [name |-> name, suffix |-> suffix, content |-> content]

\* Python orders timestamps as strs.  TIMESTAMPS lists the timestamps of the
\* specification in ascending str order; "" is below every other str
TIMESTAMPS == <<"", "t0", "t1", "t2", "t3">>
StrRank(s) == CHOOSE i \in 1..Len(TIMESTAMPS) : TIMESTAMPS[i] = s
StrLess(a, b) == StrRank(a) < StrRank(b)

RECURSIVE GetFirstTimestamp(_)
\* _get_first_timestamp(path): the first truthy timestamp of a decodable line
GetFirstTimestamp(file) ==
    IF file = << >> THEN ""
    ELSE LET line == StripLine(Head(file))
             r == JsonLoads(line)
         IN IF LineTruthy(line) /\ r.ok /\ Truthy(r.value, "timestamp")
            THEN r.value["timestamp"]
            ELSE GetFirstTimestamp(Tail(file))

RECURSIVE LastTimestamp(_)
\* `for entry in reversed(entries): if entry.get("timestamp"): ... break`
LastTimestamp(es) ==
    IF es = << >> THEN ""
    ELSE IF Truthy(es[Len(es)], "timestamp") THEN es[Len(es)]["timestamp"]
    ELSE LastTimestamp(SubSeq(es, 1, Len(es) - 1))

\* the `continue` of line 147: the session's last timestamp is before since
SessionSkipped(file, since) ==
    /\ since # ""
    /\ GetFirstTimestamp(file.content) # ""
    /\ LET last_ts == LastTimestamp(ReadJsonl(file.content))
       IN last_ts # "" /\ StrLess(last_ts, since)

RECURSIVE SortSessions(_)
\* sessions.sort(key=lambda x: x[0]): a stable sort on first_ts
SortSessions(sessions) ==
    IF sessions = << >> THEN << >>
    ELSE LET rest == SortSessions(Tail(sessions))
             k == Cardinality({j \in 1..Len(rest) :
                                  StrLess(rest[j].first_ts, Head(sessions).first_ts)})
         IN SubSeq(rest, 1, k) \o <<Head(sessions)>> \o SubSeq(rest, k + 1, Len(rest))

RECURSIVE ScanDir(_, _)
\* `for path in transcript_dir.iterdir()`: the (first_ts, path) pairs appended
ScanDir(dir, since) ==
    IF dir = << >> THEN << >>
    ELSE LET path == Head(dir)
             rest == ScanDir(Tail(dir), since)
         IN IF path.suffix # ".jsonl" THEN rest
            ELSE IF SessionSkipped(path, since) THEN rest
            ELSE <<[first_ts |-> GetFirstTimestamp(path.content), path |-> path]>> \o rest

\* find_sessions(cwd, since, transcript_dir)
FindSessions(dir, since) ==
    LET sorted == SortSessions(ScanDir(dir, since))
    IN [k \in 1..Len(sorted) |-> sorted[k].path]

\* `if turn["timestamp"] >= since_timestamp` (lines 407-409)
FilteredTurns(parsed, since) ==
    LET AtOrAfterSince(turn) == ~StrLess(turn.timestamp, since)
    IN SelectSeq(parsed.turns, AtOrAfterSince)

RECURSIVE CountTool(_, _)
\* `tool_counts[name] = tool_counts.get(name, 0) + 1`: a new name goes last
CountTool(tool_counts, name) ==
    IF tool_counts = << >> THEN <<[tool_name |-> name, count |-> 1]>>
    ELSE IF Head(tool_counts).tool_name = name
         THEN <<[tool_name |-> name, count |-> Head(tool_counts).count + 1]>>
              \o Tail(tool_counts)
    ELSE <<Head(tool_counts)>> \o CountTool(Tail(tool_counts), name)

RECURSIVE CountTools(_, _)
\* `for tool in turn["tools"]` (lines 424-428)
CountTools(st, tools) ==
    IF tools = << >> THEN st
    ELSE CountTools([st EXCEPT !.tool_counts = CountTool(@, Head(tools).tool_name),
                               !.subagent_count =
                                   IF Head(tools).is_subagent THEN @ + 1 ELSE @],
                    Tail(tools))

RECURSIVE CountTurns(_, _)
\* `for turn in filtered_turns` (lines 423-434)
CountTurns(st, ts) ==
    IF ts = << >> THEN st
    ELSE LET metrics == Head(ts).metrics
             s1 == CountTools(st, Head(ts).tools)
         IN CountTurns([s1 EXCEPT
                           !.total_input = @ + metrics.input_tokens,
                           !.total_output = @ + metrics.output_tokens,
                           !.total_cache_read = @ + metrics.cache_read_tokens,
                           !.total_cache_creation = @ + metrics.cache_creation_tokens],
                       Tail(ts))

\* one iteration of `for session_path in sessions` (lines 402-434)
SessionStep(st, session_path, since) ==
    LET parsed == ParseSession(ReadJsonl(session_path.content)).ret
        filtered_turns == FilteredTurns(parsed, since)
    IN IF filtered_turns = << >> THEN st
       ELSE CountTurns(
                [st EXCEPT !.all_turns = @ \o filtered_turns,
                           !.session_summaries =
                               Append(@, [session_id |-> parsed.session_id,
                                          model |-> parsed.model,
                                          version |-> parsed.version,
                                          git_branch |-> parsed.git_branch,
                                          turn_count |-> Len(filtered_turns)])],
                filtered_turns)

RECURSIVE FoldSessions(_, _, _)
FoldSessions(st, sessions, since) ==
    IF sessions = << >> THEN st
    ELSE FoldSessions(SessionStep(st, Head(sessions), since), Tail(sessions), since)

\* the value compute_prompt_linguistics returns for ts
PromptLinguistics(ts) ==
    LET r == LinguisticsReturn(EmptyDict, ts) IN r.heap[r.id]

RECURSIVE SumCounts(_)
\* sum(tool_counts.values())
SumCounts(tool_counts) ==
    IF tool_counts = << >> THEN 0
    ELSE Head(tool_counts).count + SumCounts(Tail(tool_counts))

\* the dict get_turns_since returns (lines 436-453)
TurnsSinceReturn(st) ==
    [turns |-> st.all_turns,
     turn_count |-> Len(st.all_turns),
     tool_stats |-> [total |-> SumCounts(st.tool_counts),
                     by_tool |-> st.tool_counts,
                     subagent_count |-> st.subagent_count],
     token_stats |-> [total_input |-> st.total_input,
                      total_output |-> st.total_output,
                      total_cache_read |-> st.total_cache_read,
                      total_cache_creation |-> st.total_cache_creation],
     sessions |-> st.session_summaries,
     prompt_linguistics |-> PromptLinguistics(st.all_turns),
     effectiveness_signals |-> ComputeEffectivenessSignals(st.all_turns)]

\* get_turns_since(cwd, since_timestamp, transcript_dir): sessions, the totals
\* of the loop and the returned dict are each computed once, as locals are
GetTurnsSince(dir, since_timestamp) ==
    LET st0 == [all_turns |-> << >>, session_summaries |-> << >>,
                tool_counts |-> << >>, subagent_count |-> 0,
                total_input |-> 0, total_output |-> 0,
                total_cache_read |-> 0, total_cache_creation |-> 0]
    IN CHOOSE ret \in {TurnsSinceReturn(st) :
                          st \in {FoldSessions(st0, sessions, since_timestamp) :
                                     sessions \in {FindSessions(dir, since_timestamp)}}} :
           TRUE

(***************************************************************************)
(* SpecSince: session files appear in the transcript directory, at any     *)
(* place of the directory listing, and /reflect asks for the turns since a *)
(* marker.                                                                 *)
(***************************************************************************)
TimedUser(ts, text, sid) ==
    JsonLine([type |-> "user", timestamp |-> ts, sessionId |-> sid,
              message |-> [content |-> PyStr(text)]])
UntimedUser(text, sid) ==
    JsonLine([type |-> "user", sessionId |-> sid, message |-> [content |-> PyStr(text)]])
TimedAssistant(ts) ==
    JsonLine([type |-> "assistant", timestamp |-> ts,
              message |-> [content |-> PyList(OkText)]])

\* two turns, timestamps ascending
F_Ascending ==
    DirFile("a", ".jsonl", <<TimedUser("t1", P_Fix, "sess-a"), TimedAssistant("t1"),
                             TimedUser("t3", P_Why, "sess-a"), TimedAssistant("t3")>>)
\* one turn whose reply carries an earlier timestamp than its prompt
F_Descending ==
    DirFile("b", ".jsonl", <<TimedUser("t3", P_Why, "sess-b"), TimedAssistant("t1")>>)
F_Old ==
    DirFile("c", ".jsonl", <<TimedUser("t0", P_Fix, "sess-c"), TimedAssistant("t0")>>)
F_AtMarker ==
    DirFile("d", ".jsonl", <<TimedUser("t2", P_Actually, "sess-d"), TimedAssistant("t2")>>)
\* the prompt has no timestamp
F_Untimed ==
    DirFile("e", ".jsonl", <<UntimedUser(P_Fix, "sess-e"), TimedAssistant("t3")>>)
\* not a session file
F_Notes ==
    DirFile("notes", ".txt", <<TimedUser("t3", P_Fix, "sess-n"), TimedAssistant("t3")>>)

DirFiles == {F_Ascending, F_Descending, F_Old, F_AtMarker, F_Untimed, F_Notes}
Markers_Since == {"", "t1", "t2", "t3"}

\* a file appears in the directory; the report of an earlier call is dropped
AddSessionFile ==
    /\ Len(transcript_dir) < MaxFiles
    /\ \E file \in DirFiles : \E pos \in 1..(Len(transcript_dir) + 1) :
           /\ \A k \in 1..Len(transcript_dir) : transcript_dir[k].name # file.name
           /\ transcript_dir' = InsertAt(transcript_dir, pos, file)
    /\ report' = NoReport
    /\ UNCHANGED <<parseVars, analysisVars, hookVars>>
    /\ UNCHANGED envVars

\* a call of get_turns_since
GetTurnsSinceCall ==
    /\ \E since \in Markers_Since :
           report' = [since |-> since, ret |-> GetTurnsSince(transcript_dir, since)]
    /\ UNCHANGED <<parseVars, analysisVars, transcript_dir, hookVars>>
    /\ UNCHANGED envVars

NextSince == AddSessionFile \/ GetTurnsSinceCall

SpecSince == Init /\ [][NextSince]_vars

(***************************************************************************)
(* confessional_hook.handle_stop and the reflection_db commands it relies  *)
(* on.  A table is the sequence of its rows in order of insertion; an      *)
(* AUTOINCREMENT id is the row's place in that sequence, since no row is   *)
(* ever deleted.                                                           *)
(***************************************************************************)
\* now_iso(): the reading of the wall clock
NOW == clock

\* rows of table whose project column is project
OfProject(table, project) ==
    LET Mine(row) == row.project = project IN SelectSeq(table, Mine)

\* is_recording_enabled(project): bool(row and row[0])
IsRecordingEnabled(d, project) ==
    LET rows == OfProject(d.recording_state, project)
    IN rows # << >> /\ rows[1].enabled = 1

\* get_current_breakpoint(conn, project): ORDER BY id DESC LIMIT 1
GetCurrentBreakpoint(d, project) ==
    LET rows == OfProject(d.breakpoints, project)
    IN IF rows = << >> THEN None ELSE rows[Len(rows)]

\* json.dumps(turn): the text handed to cmd_record_interaction
JsonDumps(value) == [py |-> "str", json |-> value]

\* json.loads(json_text) of a text json.dumps wrote: strs, lists, bools and
\* ints come back as they were; a dict comes back with the keys it had
LoadJsonText(json_text) == json_text.json

\* the tool_usage rows of step 2 (lines 453-469)
ToolUsageRows(d, project, prompt_id, tools) ==
    [k \in 1..Len(tools) |->
        [id |-> Len(d.tool_usage) + k,
         prompt_id |-> prompt_id, project |-> project, timestamp |-> NOW,
         tool_name |-> Get(tools[k], "tool_name", << >>),
         tool_input_summary |-> Get(tools[k], "input_summary", << >>),
         files_touched |-> Get(tools[k], "files_touched", << >>),
         is_subagent |-> IF Get(tools[k], "is_subagent", FALSE) THEN 1 ELSE 0,
         subagent_task |-> Get(tools[k], "subagent_task", << >>),
         subagent_result_summary |-> Get(tools[k], "subagent_result_summary", << >>),
         duration_ms |-> Get(tools[k], "duration_ms", 0)]]

\* the turn_blocks rows of step 4 (lines 477-490)
TurnBlockRows(d, project, prompt_id, blocks) ==
    [k \in 1..Len(blocks) |->
        [id |-> Len(d.turn_blocks) + k,
         prompt_id |-> prompt_id, project |-> project,
         sequence |-> Get(blocks[k], "sequence", 0),
         block_type |-> Get(blocks[k], "type", << >>),
         content |-> Get(blocks[k], "content", << >>),
         tool_name |-> Get(blocks[k], "tool_name", None)]]

\* bug: the project is left out of the WHERE clause
DuplicateOffset_AnyProject(d, project, t_offset) ==
    \E k \in 1..Len(d.prompts) : d.prompts[k].transcript_offset = t_offset

\* `SELECT 1 FROM prompts WHERE project = ? AND transcript_offset = ?`
DuplicateOffset(d, project, t_offset) ==
    \E k \in 1..Len(d.prompts) :
        d.prompts[k].project = project /\ d.prompts[k].transcript_offset = t_offset

\* cmd_record_interaction(project, json_text): the database it leaves
CmdRecordInteraction(d, project, json_text) ==
    LET data == LoadJsonText(json_text)
        bp == GetCurrentBreakpoint(d, project)
        bp_id == IF bp # None THEN PyInt(bp.id) ELSE None
        t_offset == Get(data, "transcript_offset", None)
        prompt_id == Len(d.prompts) + 1
    IN IF t_offset # None /\ DuplicateOffset(d, project, t_offset) THEN d
       ELSE [d EXCEPT
                !.prompts = Append(@, [id |-> prompt_id, project |-> project,
                                       breakpoint_id |-> bp_id, timestamp |-> NOW,
                                       prompt |-> Get(data, "prompt", << >>),
                                       transcript_offset |-> t_offset]),
                !.tool_usage = @ \o ToolUsageRows(d, project, prompt_id,
                                                  Get(data, "tools", << >>)),
                !.responses = Append(@, [id |-> Len(d.responses) + 1,
                                         prompt_id |-> prompt_id, project |-> project,
                                         breakpoint_id |-> bp_id, timestamp |-> NOW,
                                         response |-> Get(data, "response", << >>)]),
                !.turn_blocks = @ \o TurnBlockRows(d, project, prompt_id,
                                                   Get(data, "blocks", << >>))]

\* "Initial breakpoint"
S_InitialBreakpoint ==
    <<"I", "n", "i", "t", "i", "a", "l", " ",
      "b", "r", "e", "a", "k", "p", "o", "i", "n", "t">>

\* cmd_init(project): the first breakpoint, unless the project has one
CmdInit(d, project) ==
    IF GetCurrentBreakpoint(d, project) = None
    THEN [d EXCEPT !.breakpoints =
              Append(@, [id |-> Len(d.breakpoints) + 1, project |-> project,
                         timestamp |-> NOW, note |-> S_InitialBreakpoint])]
    ELSE d

\* cmd_enable_recording(project): INSERT ... ON CONFLICT(project) DO UPDATE
CmdEnableRecording(d, project) ==
    IF OfProject(d.recording_state, project) = << >>
    THEN [d EXCEPT !.recording_state =
              Append(@, [project |-> project, enabled |-> 1,
                         enabled_at |-> NOW, disabled_at |-> None])]
    ELSE [d EXCEPT !.recording_state =
              [k \in 1..Len(@) |->
                  IF @[k].project = project
                  THEN [@[k] EXCEPT !.enabled = 1, !.enabled_at = NOW]
                  ELSE @[k]]]

\* cmd_disable_recording(project): INSERT ... ON CONFLICT(project) DO UPDATE
CmdDisableRecording(d, project) ==
    IF OfProject(d.recording_state, project) = << >>
    THEN [d EXCEPT !.recording_state =
              Append(@, [project |-> project, enabled |-> 0,
                         enabled_at |-> None, disabled_at |-> NOW])]
    ELSE [d EXCEPT !.recording_state =
              [k \in 1..Len(@) |->
                  IF @[k].project = project
                  THEN [@[k] EXCEPT !.enabled = 0, !.disabled_at = NOW]
                  ELSE @[k]]]

\* the dict parse_last_turn returns, as handle_stop passes it on
TurnDict(turn) == [k \in DOMAIN turn \ {"py"} |-> turn[k]]

\* handle_stop(input_data): the database it leaves for the transcript file
HandleStopDb(d, project, file) ==
    IF ~IsRecordingEnabled(d, project) THEN d
    ELSE LET turn == ParseLastTurn(HookReadLines(file))
         IN IF turn = ReturnedNone THEN d
            ELSE CmdRecordInteraction(d, project, JsonDumps(TurnDict(turn)))

(***************************************************************************)
(* SpecStop: the transcript grows line by line; recording is switched on   *)
(* and off; the Stop hook fires at any moment, any number of times.        *)
(***************************************************************************)
StopLines ==
    {JsonLine(HiPrompt),
     JsonLine(AssistantEntry(OkText)),
     JsonLine(AssistantEntry(<<ToolUseBlock(S_Read, [file_path |-> <<"f">>])>>)),
     JsonLine(ToolResultEntry)}

WriteStopLine == \E line \in StopLines : Write(line)

\* `reflection_db.py init <project>`
CmdInitCall ==
    /\ db' = CmdInit(db, PROJECT)
    /\ UNCHANGED <<parseVars, analysisVars, reflectVars, stopped>>
    /\ UNCHANGED envVars

\* `reflection_db.py enable_recording <project>`
CmdEnableRecordingCall ==
    /\ db' = CmdEnableRecording(db, PROJECT)
    /\ UNCHANGED <<parseVars, analysisVars, reflectVars, stopped>>
    /\ UNCHANGED envVars

\* `reflection_db.py disable_recording <project>`
CmdDisableRecordingCall ==
    /\ db' = CmdDisableRecording(db, PROJECT)
    /\ UNCHANGED <<parseVars, analysisVars, reflectVars, stopped>>
    /\ UNCHANGED envVars

\* the offsets stopped holds after a Stop event that gets to record
StoppedAfter(d, project, file, seen) ==
    IF /\ IsRecordingEnabled(d, project)
       /\ ParseLastTurn(HookReadLines(file)) # ReturnedNone
    THEN seen \cup {LastUserIdx(HookReadLines(file), Len(HookReadLines(file)))}
    ELSE seen

\* a Stop event for the transcript; stopped remembers which prompt, by the
\* index of its line among the decoded lines, was the last complete turn then
HandleStop ==
    /\ Len(db.prompts) < MaxRows
    /\ db' = HandleStopDb(db, PROJECT, transcript)
    /\ stopped' = StoppedAfter(db, PROJECT, transcript, stopped)
    /\ UNCHANGED <<parseVars, analysisVars, reflectVars>>
    /\ UNCHANGED envVars

NextStop ==
    \/ WriteStopLine
    \/ CmdInitCall
    \/ CmdEnableRecordingCall
    \/ CmdDisableRecordingCall
    \/ HandleStop

SpecStop == Init /\ [][NextStop]_vars

(***************************************************************************)
(* confessional_hook.handle_session_start and the reflection_db commands   *)
(* it relies on.                                                           *)
(***************************************************************************)
\* cmd_breakpoint(project, note)
CmdBreakpoint(d, project, note) ==
    [d EXCEPT !.breakpoints =
        Append(@, [id |-> Len(d.breakpoints) + 1, project |-> project,
                   timestamp |-> NOW, note |-> note])]

\* cmd_record_session_context(project, model, git_branch, git_commit, ...)
CmdRecordSessionContext(d, project, model, git_branch, git_commit, mcp_servers, claude_md_hash) ==
    LET bp == GetCurrentBreakpoint(d, project)
        bp_id == IF bp # None THEN PyInt(bp.id) ELSE None
    IN [d EXCEPT !.session_context =
           Append(@, [id |-> Len(d.session_context) + 1, project |-> project,
                      breakpoint_id |-> bp_id, timestamp |-> NOW,
                      model |-> model, git_branch |-> git_branch,
                      git_commit |-> git_commit, mcp_servers |-> mcp_servers,
                      claude_md_hash |-> claude_md_hash])]

\* what `git branch --show-current` and `git rev-parse --short HEAD` print in
\* cwd; "" when git fails or cwd is no repository
GitStates ==
    {[git_branch |-> "", git_commit |-> ""],
     [git_branch |-> "main", git_commit |-> "abc1234"]}

\* handle_session_start(input_data): the database it leaves
HandleSessionStartDb(d, project, git) ==
    IF ~IsRecordingEnabled(d, project) THEN d
    ELSE CHOOSE after \in {CmdRecordSessionContext(initialised, project, "",
                                                   git.git_branch, git.git_commit, "", "") :
                              initialised \in {CmdInit(d, project)}} : TRUE

(***************************************************************************)
(* SpecSessionStart: hours pass; recording is switched on; breakpoints are *)
(* set by hand; sessions start.                                            *)
(***************************************************************************)
\* an hour passes
Tick ==
    /\ clock < MaxClock
    /\ clock' = clock + 1
    /\ UNCHANGED <<parseVars, analysisVars, reflectVars, hookVars>>
    /\ UNCHANGED <<store, bp_ids, outcome, window>>

\* "Auto-breakpoint"
S_AutoBreakpoint ==
    <<"A", "u", "t", "o", "-", "b", "r", "e", "a", "k", "p", "o", "i", "n", "t">>

\* the notes given to `reflection_db.py breakpoint <project> [note]`
Notes == {<< >>, S_AutoBreakpoint \o <<" ", "x">>}

\* `reflection_db.py breakpoint <project> [note]`
CmdBreakpointCall ==
    /\ Len(db.breakpoints) < MaxRows
    /\ \E note \in Notes : db' = CmdBreakpoint(db, PROJECT, note)
    /\ UNCHANGED <<parseVars, analysisVars, reflectVars, stopped>>
    /\ UNCHANGED envVars

\* a SessionStart event
HandleSessionStart ==
    /\ Len(db.session_context) < MaxSessions
    /\ \E git \in GitStates : db' = HandleSessionStartDb(db, PROJECT, git)
    /\ UNCHANGED <<parseVars, analysisVars, reflectVars, stopped>>
    /\ UNCHANGED envVars

NextSessionStart ==
    \/ Tick
    \/ CmdEnableRecordingCall
    \/ CmdBreakpointCall
    \/ HandleSessionStart

SpecSessionStart == Init /\ [][NextSessionStart]_vars

(***************************************************************************)
(* confessional_hook.main and the failures of the handlers.  A run of a    *)
(* function is the exception it raised ("" when it returned), the database *)
(* it left and whether it logged an error.                                 *)
(***************************************************************************)
Returned(d, logged) == [raised |-> "", db |-> d, logged |-> logged]
Raised(exception, d) == [raised |-> exception, db |-> d, logged |-> FALSE]

\* a decoded JSON value that is an object
IsDict(value) == "py" \notin DOMAIN value

\* os.getcwd()
S_Cwd == PyStr(<<"/", "w">>)

\* get_project_name(cwd): git prints the top level, or the basename of cwd is
\* taken; subprocess.run raises on a cwd that is no path, inside the try
GetProjectName(cwd, git_ok) ==
    IF git_ok /\ (cwd = None \/ cwd.py = "str") THEN [raised |-> "", project |-> PROJECT]
    ELSE IF cwd # None /\ cwd.py = "str" THEN [raised |-> "", project |-> PROJECT]
    ELSE [raised |-> "TypeError"]

\* parse_last_turn raises on a decoded line that is no object: entry.get
\* (lines 155-156 and 184-185) is reached for every line after the last
\* genuine prompt, and for every line when there is none
ParseLastTurnRaises(ls) ==
    \E i \in 1..Len(ls) : ~IsDict(ls[i]) /\ i > LastUserIdx(ls, Len(ls))

\* bug: the `try` is left out
HandleStopRun_NoTry(d, input_data, git_ok, db_fails, file) ==
    LET name == GetProjectName(Get(input_data, "cwd", S_Cwd), git_ok)
    IN IF name.raised # "" THEN Raised(name.raised, d)
       ELSE IF ~IsRecordingEnabled(d, name.project) THEN Returned(d, FALSE)
       ELSE IF Get(input_data, "transcript_path", "") = "" THEN Returned(d, FALSE)
       ELSE IF ParseLastTurnRaises(HookReadLines(file)) THEN Raised("AttributeError", d)
       ELSE IF ParseLastTurn(HookReadLines(file)) = ReturnedNone THEN Returned(d, FALSE)
       ELSE IF db_fails THEN Raised("OperationalError", d)
       ELSE Returned(HandleStopDb(d, name.project, file), FALSE)

\* handle_stop(input_data)
HandleStopRun(d, input_data, git_ok, db_fails, file) ==
    LET name == GetProjectName(Get(input_data, "cwd", S_Cwd), git_ok)
    IN IF name.raised # "" THEN Raised(name.raised, d)
       ELSE IF ~IsRecordingEnabled(d, name.project) THEN Returned(d, FALSE)
       ELSE IF Get(input_data, "transcript_path", "") = "" THEN Returned(d, FALSE)
       ELSE IF ParseLastTurnRaises(HookReadLines(file)) THEN Returned(d, TRUE)
       ELSE IF ParseLastTurn(HookReadLines(file)) = ReturnedNone THEN Returned(d, FALSE)
       ELSE IF db_fails THEN Returned(d, TRUE)
       ELSE Returned(HandleStopDb(d, name.project, file), FALSE)

\* handle_session_start(input_data)
HandleSessionStartRun(d, input_data, git_ok, db_fails) ==
    LET name == GetProjectName(Get(input_data, "cwd", S_Cwd), git_ok)
        git == IF git_ok THEN [git_branch |-> "main", git_commit |-> "abc1234"]
               ELSE [git_branch |-> "", git_commit |-> ""]
    IN IF name.raised # "" THEN Raised(name.raised, d)
       ELSE IF ~IsRecordingEnabled(d, name.project) THEN Returned(d, FALSE)
       ELSE IF db_fails THEN Returned(d, TRUE)
       ELSE Returned(HandleSessionStartDb(d, name.project, git), FALSE)

\* what json.load(sys.stdin) gives
Unreadable == [py |-> "JSONDecodeError"]

\* main() in hook mode: the run and the exit status of the process
Main(d, stdin, git_ok, db_fails, file) ==
    IF stdin = Unreadable THEN [exit_status |-> 0] @@ Returned(d, FALSE)
    ELSE IF ~IsDict(stdin) THEN [exit_status |-> 1] @@ Raised("AttributeError", d)
    ELSE LET event == Get(stdin, "hook_event_name", "")
             run == IF event = "Stop"
                    THEN HandleStopRun(d, stdin, git_ok, db_fails, file)
                    ELSE IF event = "SessionStart"
                    THEN HandleSessionStartRun(d, stdin, git_ok, db_fails)
                    ELSE Returned(d, FALSE)
         IN [exit_status |-> IF run.raised = "" THEN 0 ELSE 1] @@ run

(***************************************************************************)
(* SpecHook: the transcript grows, recording is switched on, and the hook  *)
(* is run on whatever arrives on its standard input.                       *)
(***************************************************************************)
HookLines ==
    {JsonLine(HiPrompt),
     JsonLine(AssistantEntry(OkText)),
     JsonLine(PyList(<< >>))}

WriteHookLine == \E line \in HookLines : Write(line)

S_TranscriptPath == "/w/transcript.jsonl"

Stdins ==
    {Unreadable, PyList(<< >>), PyInt(42), None,
     EmptyDict,
     [hook_event_name |-> "Nope", cwd |-> S_Cwd],
     [hook_event_name |-> "Stop", cwd |-> S_Cwd],
     [hook_event_name |-> "Stop", cwd |-> S_Cwd, transcript_path |-> S_TranscriptPath],
     [hook_event_name |-> "Stop", transcript_path |-> S_TranscriptPath],
     [hook_event_name |-> "Stop", cwd |-> PyInt(5), transcript_path |-> S_TranscriptPath],
     [hook_event_name |-> "Stop", cwd |-> None, transcript_path |-> S_TranscriptPath],
     [hook_event_name |-> "SessionStart", cwd |-> S_Cwd],
     [hook_event_name |-> "SessionStart", cwd |-> PyInt(5)]}

\* one run of the hook process
HookMain ==
    /\ Len(db.prompts) < MaxRows
    /\ Len(db.session_context) < MaxSessions
    /\ \E stdin \in Stdins : \E git_ok \in BOOLEAN : \E db_fails \in BOOLEAN :
           \E run \in {Main(db, stdin, git_ok, db_fails, transcript)} :
               /\ outcome' = [exit_status |-> run.exit_status, raised |-> run.raised,
                              logged |-> run.logged, stdin |-> stdin]
               /\ db' = run.db
               /\ stopped' = IF Len(run.db.prompts) > Len(db.prompts)
                             THEN StoppedAfter(db, PROJECT, transcript, stopped)
                             ELSE stopped
    /\ UNCHANGED <<parseVars, analysisVars, reflectVars>>
    /\ UNCHANGED <<clock, store, bp_ids, window>>

NextHook == WriteHookLine \/ CmdEnableRecordingCall \/ HookMain

SpecHook == Init /\ [][NextHook]_vars

(***************************************************************************)
(* confessional_store: the breakpoints of a project are the lines of its   *)
(* breakpoints.jsonl, store[project]; a missing file reads as no line.     *)
(***************************************************************************)
\* _read_jsonl(path) of confessional_store
RECURSIVE StoreReadJsonl(_)
StoreReadJsonl(file) ==
    IF file = << >> THEN << >>
    ELSE LET line == StripLine(Head(file))
             rest == StoreReadJsonl(Tail(file))
         IN IF LineTruthy(line)
            THEN LET r == JsonLoads(line)
                 IN IF r.ok THEN <<r.value>> \o rest ELSE rest
            ELSE rest

\* _append_jsonl(path, entry): json.dumps(entry) and a newline
AppendJsonl(file, entry) == Append(file, JsonLine(entry))

\* bug: the id is the number of entries read, not one more
AddBreakpoint_IdIsLen(s, project, note) ==
    LET existing == StoreReadJsonl(s[project])
        new_id == Len(existing)
        entry == [id |-> new_id, timestamp |-> NOW, note |-> note]
    IN [store |-> [s EXCEPT ![project] = AppendJsonl(s[project], entry)],
        entry |-> entry]

\* add_breakpoint(project, note): the store after the call and the entry
\* returned
AddBreakpoint(s, project, note) ==
    LET existing == StoreReadJsonl(s[project])
        new_id == Len(existing) + 1
        entry == [id |-> new_id, timestamp |-> NOW, note |-> note]
    IN [store |-> [s EXCEPT ![project] = AppendJsonl(s[project], entry)],
        entry |-> entry]

\* get_current_breakpoint(project) of confessional_store
StoreGetCurrentBreakpoint(s, project) ==
    LET es == StoreReadJsonl(s[project])
    IN IF es # << >> THEN es[Len(es)] ELSE None

\* get_previous_breakpoint(project) of confessional_store
StoreGetPreviousBreakpoint(s, project) ==
    LET es == StoreReadJsonl(s[project])
    IN IF Len(es) >= 2 THEN es[Len(es) - 1] ELSE None

\* get_all_breakpoints(project)
GetAllBreakpoints(s, project) == StoreReadJsonl(s[project])

StoreNotes == {"", "before refactor"}

\* a call of add_breakpoint; bp_ids keeps the id each call returned
AddBreakpointCall ==
    /\ \E project \in PROJECTS : \E note \in StoreNotes :
           /\ Len(store[project]) < MaxBreakpoints
           /\ \E r \in {AddBreakpoint(store, project, note)} :
                  /\ store' = r.store
                  /\ bp_ids' = [bp_ids EXCEPT ![project] = Append(@, r.entry.id)]
    /\ UNCHANGED <<parseVars, analysisVars, reflectVars, hookVars>>
    /\ UNCHANGED <<clock, outcome, window>>

NextStore == Tick \/ AddBreakpointCall

SpecStore == Init /\ [][NextStore]_vars

(***************************************************************************)
(* SpecToolNames: transcripts that are long enough for a tool call in one  *)
(* turn and a tool result in the next.                                     *)
(***************************************************************************)
ToolNameLines ==
    {JsonLine(HiPrompt),
     JsonLine(AssistantEntry(OkText)),
     JsonLine(AssistantEntry(<<ToolUseBlock(S_Read, [file_path |-> <<"f">>])>>)),
     JsonLine(AssistantEntry(<<ToolUseBlock(S_Bash, [command |-> <<"l", "s">>]),
                               ToolUseBlock(S_Task, [prompt |-> <<"p">>])>>)),
     JsonLine(ToolResultEntry)}

WriteToolNameLine ==
    /\ Len(transcript) < MaxToolNameLines
    /\ \E line \in ToolNameLines : transcript' = Append(transcript, line)
    /\ UNCHANGED <<entries, session, turn_spans, lines, last_turn, prompt, skill>>
    /\ UNCHANGED analysisVars
    /\ UNCHANGED ingestVars

NextToolNames == WriteToolNameLine \/ ParseSessionCall

SpecToolNames == Init /\ [][NextToolNames]_vars

(***************************************************************************)
(* SpecFilter: collections with blank prompts and skill expansions, handed *)
(* to compute_effectiveness_signals.                                       *)
(***************************************************************************)
FilterTurns ==
    {AnalysedTurn(P_Fix, << >>, "sess-1"),
     AnalysedTurn(P_Actually, << >>, "sess-1"),
     AnalysedTurn(P_Blank, << >>, "sess-1"),
     AnalysedTurn(P_Skill, << >>, "sess-1")}

GatherFilterTurn == \E turn \in FilterTurns : Gather(turn)

NextFilter == GatherFilterTurn \/ ComputeEffectivenessSignalsCall

SpecFilter == Init /\ [][NextFilter]_vars

(***************************************************************************)
(* SpecStyles: prompts of the three styles, corrections among them, and a  *)
(* change of session.                                                      *)
(***************************************************************************)
P_FixQ == <<"F", "i", "x", "?">>
P_TryAgain == <<"T", "r", "y", " ", "a", "g", "a", "i", "n", "!">>

StyleTurns ==
    {AnalysedTurn(P_Fix, << >>, "sess-1"),
     AnalysedTurn(P_Why, << >>, "sess-1"),
     AnalysedTurn(P_Actually, << >>, "sess-1"),
     AnalysedTurn(P_FixQ, << >>, "sess-1"),
     AnalysedTurn(P_TryAgain, << >>, "sess-1"),
     AnalysedTurn(P_Fix, << >>, "sess-2")}

GatherStyleTurn == \E turn \in StyleTurns : Gather(turn)

NextStyles == GatherStyleTurn \/ ComputeEffectivenessSignalsCall

SpecStyles == Init /\ [][NextStyles]_vars

(***************************************************************************)
(* SpecPosition: collections long enough for a quarter of two prompts.     *)
(***************************************************************************)
PositionTurns ==
    {AnalysedTurn(P_Why, << >>, "sess-1"),
     AnalysedTurn(P_Fix, << >>, "sess-1")}

\* the caller gathers one more turn and lets go of the results it holds
GatherPositionTurn ==
    /\ Len(turns) < MaxPositionPrompts
    /\ \E turn \in PositionTurns : turns' = Append(turns, turn)
    /\ heap' = EmptyDict
    /\ calls' = << >>
    /\ UNCHANGED <<parseVars, signals>>
    /\ UNCHANGED ingestVars

NextPosition == GatherPositionTurn \/ ComputePromptLinguisticsCall

SpecPosition == Init /\ [][NextPosition]_vars

(***************************************************************************)
(* reflection_db: cmd_record_prompt and cmd_get_window.                    *)
(***************************************************************************)
\* get_previous_breakpoint(conn, project): ORDER BY id DESC LIMIT 2, rows[1]
GetPreviousBreakpoint(d, project) ==
    LET rows == OfProject(d.breakpoints, project)
    IN IF Len(rows) >= 2 THEN rows[Len(rows) - 1] ELSE None

\* cmd_record_prompt(project, prompt_text)
CmdRecordPrompt(d, project, prompt_text) ==
    LET bp == GetCurrentBreakpoint(d, project)
        bp_id == IF bp # None THEN PyInt(bp.id) ELSE None
    IN [d EXCEPT !.prompts =
           Append(@, [id |-> Len(d.prompts) + 1, project |-> project,
                      breakpoint_id |-> bp_id, timestamp |-> NOW,
                      prompt |-> prompt_text, transcript_offset |-> None])]

\* prompts p LEFT JOIN responses r ON r.prompt_id = p.id, for one prompt
JoinResponses(d, p) ==
    LET Mine(r) == r.prompt_id = p.id
        rs == SelectSeq(d.responses, Mine)
    IN IF rs = << >>
       THEN <<[prompt_id |-> p.id, timestamp |-> p.timestamp, prompt |-> p.prompt,
               response |-> None]>>
       ELSE [k \in 1..Len(rs) |->
                [prompt_id |-> p.id, timestamp |-> p.timestamp, prompt |-> p.prompt,
                 response |-> rs[k].response]]

RECURSIVE Interactions(_, _)
\* the rows of the SELECT, ORDER BY p.id ASC
Interactions(d, ps) ==
    IF ps = << >> THEN << >>
    ELSE JoinResponses(d, Head(ps)) \o Interactions(d, Tail(ps))

\* dict(row) of `SELECT id, timestamp, note FROM breakpoints`, or None
BreakpointDict(row) ==
    IF row = None THEN None
    ELSE [id |-> row.id, timestamp |-> row.timestamp, note |-> row.note]

\* cmd_get_window(project): the object it prints
CmdGetWindow(d, project) ==
    LET current_bp == GetCurrentBreakpoint(d, project)
        previous_bp == GetPreviousBreakpoint(d, project)
        InCurrent(p) == p.breakpoint_id = PyInt(current_bp.id)
        prompts == IF previous_bp # None
                   THEN SelectSeq(OfProject(d.prompts, project), InCurrent)
                   ELSE OfProject(d.prompts, project)
    IN IF current_bp = None
       THEN [error |-> "No breakpoints found. Run /breakpoint first."]
       ELSE [breakpoint_start |-> BreakpointDict(previous_bp),
             breakpoint_end |-> BreakpointDict(current_bp),
             interactions |-> Interactions(d, prompts),
             count |-> Len(Interactions(d, prompts))]

(***************************************************************************)
(* SpecWindow: breakpoints and recordings of two projects, one after the   *)
(* other, each at a later instant than the one before; then the window is  *)
(* read.                                                                   *)
(***************************************************************************)
\* the operation is over: the next one is later, and a window read before it
\* is out of date
Later ==
    /\ clock' = clock + 1
    /\ window' = NoWindow
    /\ UNCHANGED <<parseVars, analysisVars, reflectVars, stopped>>
    /\ UNCHANGED <<store, bp_ids, outcome>>

\* `reflection_db.py breakpoint <project>`
WindowBreakpoint ==
    /\ clock < MaxClock
    /\ \E project \in PROJECTS : db' = CmdBreakpoint(db, project, << >>)
    /\ Later

\* `reflection_db.py record_prompt <project> <text>`
WindowRecordPrompt ==
    /\ clock < MaxClock
    /\ \E project \in PROJECTS : db' = CmdRecordPrompt(db, project, <<"q">>)
    /\ Later

\* `reflection_db.py record_interaction <project> <json>`
WindowRecordInteraction ==
    /\ clock < MaxClock
    /\ \E project \in PROJECTS :
           db' = CmdRecordInteraction(db, project,
                     JsonDumps([prompt |-> <<"q">>, response |-> <<"a">>]))
    /\ Later

\* `reflection_db.py get_window <project>`
CmdGetWindowCall ==
    /\ window' = CmdGetWindow(db, PROJECT)
    /\ UNCHANGED <<parseVars, analysisVars, reflectVars, hookVars>>
    /\ UNCHANGED <<clock, store, bp_ids, outcome>>

NextWindow ==
    \/ WindowBreakpoint
    \/ WindowRecordPrompt
    \/ WindowRecordInteraction
    \/ CmdGetWindowCall

SpecWindow == Init /\ [][NextWindow]_vars

(***************************************************************************)
(* SpecDedup: `reflection_db.py record_interaction <project> <json>` run   *)
(* for two projects with interactions that carry a transcript_offset or    *)
(* none.                                                                   *)
(***************************************************************************)
OFFSETS == {None, PyInt(0), PyInt(1)}

\* the interaction recorded: one tool call and one block; the key
\* transcript_offset is left out when there is no offset
Interaction(offset) ==
    LET turn == [prompt |-> <<"q">>, response |-> <<"a">>,
                 tools |-> <<Tool(S_Read, F_A)>>,
                 blocks |-> <<[sequence |-> 0, type |-> "text", content |-> <<"a">>,
                               tool_name |-> None]>>]
    IN IF offset = None THEN turn ELSE turn @@ [transcript_offset |-> offset]

\* one run of the command; outcome keeps its arguments
CmdRecordInteractionCall ==
    /\ Len(db.prompts) < MaxRows
    /\ \E project \in PROJECTS : \E offset \in OFFSETS :
           /\ db' = CmdRecordInteraction(db, project, JsonDumps(Interaction(offset)))
           /\ outcome' = [exit_status |-> 0, raised |-> "", project |-> project,
                          json_text |-> JsonDumps(Interaction(offset))]
    /\ UNCHANGED <<parseVars, analysisVars, reflectVars, stopped>>
    /\ UNCHANGED <<clock, store, bp_ids, window>>

NextDedup == CmdInitCall \/ CmdRecordInteractionCall

SpecDedup == Init /\ [][NextDedup]_vars

(***************************************************************************)
(* SpecAgree: both parsers are run on transcripts with plain and           *)
(* structured prompts, blank prompts, tool-result cycles and assistant     *)
(* entries with text, blank text and tool calls.                           *)
(***************************************************************************)
AgreeLines ==
    {JsonLine(HiPrompt),
     JsonLine(UserEntry(PyList(<<ImageBlock, TextBlock(<<"t">>)>>))),
     JsonLine(ToolResultEntry),
     JsonLine(AssistantEntry(OkText)),
     JsonLine(AssistantEntry(<<TextBlock(<<" ">>)>>)),
     JsonLine(AssistantEntry(<<ToolUseBlock(S_Bash, [command |-> <<"l", "s">>]),
                               ToolUseBlock(S_Task, [prompt |-> <<"p">>])>>))}

WriteAgreeLine == \E line \in AgreeLines : Write(line)

NextAgree == WriteAgreeLine \/ ParseSessionCall \/ ParseLastTurnCall

SpecAgree == Init /\ [][NextAgree]_vars

(***************************************************************************)
(* Vocabulary of the properties: what the raw log contains, read off the   *)
(* entries without the accumulators of parse_session.                      *)
(***************************************************************************)
RECURSIVE Flatten(_)
Flatten(seqs) == IF seqs = << >> THEN << >> ELSE Head(seqs) \o Flatten(Tail(seqs))

EntryType(entry) == Get(entry, "type", PyNone)
EntryContent(entry) == Get(Get(entry, "message", EmptyDict), "content", PyList(<< >>))

\* the content blocks of an entry, each tagged with the type of its entry
RawBlocksOf(entry) ==
    IF "message" \in DOMAIN entry /\ "content" \in DOMAIN entry.message
       /\ entry.message.content.py = "list"
    THEN [j \in 1..Len(entry.message.content.items) |->
            [entry_type |-> EntryType(entry), block |-> entry.message.content.items[j]]]
    ELSE << >>

\* the content blocks of the entries strictly between start_idx and end_idx
RawBlocks(es, start_idx, end_idx) ==
    Flatten([i \in 1..(end_idx - start_idx - 1) |-> RawBlocksOf(es[start_idx + i])])

IsDictOfType(block, type) ==
    block.py = "dict" /\ "type" \in DOMAIN block /\ block.type = type

\* a user entry whose content is a list made only of tool_result blocks
IsToolResultOnly(entry) ==
    /\ EntryType(entry) = "user"
    /\ RawBlocksOf(entry) # << >>
    /\ \A j \in 1..Len(RawBlocksOf(entry)) :
           IsDictOfType(RawBlocksOf(entry)[j].block, "tool_result")

\* the text recorded for a tool_result block
ResultText(block) ==
    IF "content" \notin DOMAIN block THEN << >>
    ELSE IF block.content.py = "str" THEN Slice(block.content.s, 500)
    ELSE Slice(ReprValue(block.content), 500)

\* a raw block that the turn records: non-blank assistant text, assistant
\* tool_use, user tool_result
IsRecorded(raw) ==
    \/ /\ raw.entry_type = "assistant"
       /\ \/ /\ IsDictOfType(raw.block, "text")
             /\ \E c \in 1..Len(Get(raw.block, "text", << >>)) :
                    raw.block.text[c] \notin WHITESPACE
          \/ IsDictOfType(raw.block, "tool_use")
    \/ raw.entry_type = "user" /\ IsDictOfType(raw.block, "tool_result")

RecordedAs(raw) ==
    [type |-> raw.block.type,
     content |-> IF raw.block.type = "text" THEN Strip(raw.block.text)
                 ELSE IF raw.block.type = "tool_use"
                 THEN SummarizeToolInput(Get(raw.block, "name", << >>),
                                         Get(raw.block, "input", EmptyDict))
                 ELSE ResultText(raw.block)]

ExpectedBlocks(es, start_idx, end_idx) ==
    LET kept == SelectSeq(RawBlocks(es, start_idx, end_idx), IsRecorded)
    IN [j \in 1..Len(kept) |-> RecordedAs(kept[j])]

TypeAndContent(blocks) ==
    [j \in 1..Len(blocks) |-> [type |-> blocks[j].type, content |-> blocks[j].content]]

OfType(blocks, type) == SelectSeq(blocks, LAMBDA b : b.type = type)

TurnIdx == 1..Len(session.turns)
StartOf(k) == turn_spans[k][1]
EndOf(k) == turn_spans[k][2]
InSpan(i, k) == StartOf(k) < i /\ i < EndOf(k)

(***************************************************************************)
(* C1: a user entry whose content is a list made only of tool_result       *)
(* blocks never starts a turn (no turn begins at it and no turn's span is  *)
(* cut at it), and the tool_result blocks of every turn are exactly the    *)
(* tool_result blocks of the user entries inside its span, in log order.   *)
(***************************************************************************)
C1_ToolResultNeverAnchors ==
    /\ \A i \in 1..Len(entries) :
           IsToolResultOnly(entries[i]) =>
               \A k \in 1..Len(turn_spans) : StartOf(k) # i /\ EndOf(k) # i
    /\ \A k \in TurnIdx :
           TypeAndContent(OfType(session.turns[k].blocks, "tool_result"))
             = OfType(ExpectedBlocks(entries, StartOf(k), EndOf(k)), "tool_result")

\* a turn was produced whose span holds a tool-result-only entry of two blocks
C1_Witness ==
    \E k \in TurnIdx : \E i \in 1..Len(entries) :
        /\ InSpan(i, k)
        /\ IsToolResultOnly(entries[i])
        /\ Len(RawBlocksOf(entries[i])) = 2
        /\ Len(OfType(session.turns[k].blocks, "tool_result")) >= 2

(***************************************************************************)
(* C2: the blocks of every turn carry the sequence numbers 0, 1, 2, ...    *)
(* in list order, and their types and contents are those of the recorded   *)
(* blocks of the raw log between the turn's prompt and the next genuine    *)
(* prompt, in log order.                                                   *)
(***************************************************************************)
C2_BlocksOrdered ==
    \A k \in TurnIdx :
        /\ \A j \in 1..Len(session.turns[k].blocks) :
               session.turns[k].blocks[j].sequence = j - 1
        /\ TypeAndContent(session.turns[k].blocks)
             = ExpectedBlocks(entries, StartOf(k), EndOf(k))

\* a turn with text, tool_use and tool_result blocks interleaved
C2_Witness ==
    \E k \in TurnIdx :
        LET blocks == session.turns[k].blocks
        IN /\ Len(blocks) >= 4
           /\ \E a, b, c \in 1..Len(blocks) :
                  /\ a < b /\ b < c
                  /\ blocks[a].type = "tool_use"
                  /\ blocks[b].type = "tool_result"
                  /\ blocks[c].type = "text"

(***************************************************************************)
(* Vocabulary of the metrics properties.                                   *)
(***************************************************************************)
IsAssistant(entry) == EntryType(entry) = "assistant"

\* the assistant entries of the span of turn k
AssistantsOf(k) == {i \in 1..Len(entries) : InSpan(i, k) /\ IsAssistant(entries[i])}

HasMsgKey(entry, key) == "message" \in DOMAIN entry /\ key \in DOMAIN entry.message

\* the value of a usage counter of an entry, 0 when it is absent
Counter(entry, key) ==
    IF IsAssistant(entry) /\ HasMsgKey(entry, "usage")
       /\ key \in DOMAIN entry.message.usage
    THEN entry.message.usage[key]
    ELSE 0

\* the sum of a counter over the entries strictly inside the span of turn k
SpanSum(k, key) ==
    LET sum[i \in StartOf(k)..(EndOf(k) - 1)] ==
            IF i = StartOf(k) THEN 0 ELSE sum[i - 1] + Counter(entries[i], key)
    IN sum[EndOf(k) - 1]

\* the value of a str key of the message of an entry, "" when it is absent
MsgStr(entry, key) == IF HasMsgKey(entry, key) THEN entry.message[key] ELSE ""

Min(S) == CHOOSE x \in S : \A y \in S : x <= y
Max(S) == CHOOSE x \in S : \A y \in S : x >= y

(***************************************************************************)
(* C3: each of the four token metrics of a turn is the sum of that counter *)
(* over the assistant entries of the turn's span, an absent counter        *)
(* counting 0.                                                             *)
(***************************************************************************)
C3_TokensSummed ==
    \A k \in TurnIdx :
        LET metrics == session.turns[k].metrics
        IN /\ metrics.input_tokens = SpanSum(k, "input_tokens")
           /\ metrics.output_tokens = SpanSum(k, "output_tokens")
           /\ metrics.cache_read_tokens = SpanSum(k, "cache_read_input_tokens")
           /\ metrics.cache_creation_tokens = SpanSum(k, "cache_creation_input_tokens")

\* a turn of two assistant entries with usage, a third one lying before its
\* prompt: 1 + 5 input tokens, and the cache counters of one entry only
C3_Witness ==
    \E k \in TurnIdx :
        /\ Cardinality(AssistantsOf(k)) = 2
        /\ \E i \in 1..Len(entries) : i < StartOf(k) /\ Counter(entries[i], "input_tokens") > 0
        /\ session.turns[k].metrics.input_tokens = 6
        /\ session.turns[k].metrics.cache_read_tokens = 3

Carrying(k, key) == {i \in AssistantsOf(k) : MsgStr(entries[i], key) # ""}

Called == DOMAIN session = {"session_id", "model", "version", "git_branch", "turns"}

NoEntryHas(key) == \A i \in 1..Len(entries) : key \notin DOMAIN entries[i]

NoCounter(k, key) == \A i \in AssistantsOf(k) : Counter(entries[i], key) = 0

NonBlank(text) == \E c \in 1..Len(text) : text[c] \notin WHITESPACE

\* a genuine prompt: a user entry whose content is a non-blank string, or a
\* list holding a plain string or a block that is not a tool_result
GenuinePrompt(entry) ==
    /\ EntryType(entry) = "user"
    /\ "message" \in DOMAIN entry
    /\ "content" \in DOMAIN entry.message
    /\ \/ entry.message.content.py = "str" /\ NonBlank(entry.message.content.s)
       \/ /\ entry.message.content.py = "list"
          /\ \E j \in 1..Len(entry.message.content.items) :
                 \/ entry.message.content.items[j].py = "str"
                 \/ /\ entry.message.content.items[j].py = "dict"
                    /\ ~IsDictOfType(entry.message.content.items[j], "tool_result")

Prompts(es) == {i \in 1..Len(es) : GenuinePrompt(es[i])}

\* the end of the span of the prompt at i: the next genuine prompt, or the
\* end of the log
SpanEnd(es, i) ==
    IF \E j \in Prompts(es) : j > i
    THEN Min({j \in Prompts(es) : j > i})
    ELSE Len(es) + 1

\* the non-blank assistant texts of a span, stripped, in log order
SpanTexts(es, start_idx, end_idx) ==
    LET raws == SelectSeq(RawBlocks(es, start_idx, end_idx),
                          LAMBDA r : /\ r.entry_type = "assistant"
                                     /\ IsDictOfType(r.block, "text")
                                     /\ NonBlank(Get(r.block, "text", << >>)))
    IN [j \in 1..Len(raws) |-> Strip(raws[j].block.text)]

\* the names of the tool calls of a span, in call order
SpanToolNames(es, start_idx, end_idx) ==
    LET raws == SelectSeq(RawBlocks(es, start_idx, end_idx),
                          LAMBDA r : /\ r.entry_type = "assistant"
                                     /\ IsDictOfType(r.block, "tool_use"))
    IN [j \in 1..Len(raws) |-> Get(raws[j].block, "name", << >>)]

\* the response that the rule gives to a span with texts or tool calls
RuleResponse(texts, names) ==
    IF texts # << >> THEN Join(<<"\n", "\n">>, texts)
    ELSE S_ToolOnly \o Join(<<",", " ">>, names) \o <<"]">>

(***************************************************************************)
(* C4: in parse_session and in parse_last_turn alike, the span of a        *)
(* genuine prompt yields a turn exactly when it has a non-blank assistant  *)
(* text or a tool call; the response is the texts joined when there is a   *)
(* text, otherwise "[tool-only turn: " + the tool names joined by ", " in  *)
(* call order + "]"; so every produced turn has a non-empty response.      *)
(***************************************************************************)
C4_ResponseRule ==
    /\ \A i \in Prompts(entries) :
           LET texts == SpanTexts(entries, i, SpanEnd(entries, i))
               names == SpanToolNames(entries, i, SpanEnd(entries, i))
           IN /\ (texts = << >> /\ names = << >>)
                   <=> ~ \E k \in 1..Len(turn_spans) : StartOf(k) = i
              /\ \A k \in TurnIdx :
                     StartOf(k) = i =>
                         /\ session.turns[k].response = RuleResponse(texts, names)
                         /\ session.turns[k].response # << >>
    /\ \A k \in 1..Len(turn_spans) : StartOf(k) \in Prompts(entries)
    /\ last_turn # NoLastTurn =>
           IF Prompts(lines) = {} THEN last_turn = ReturnedNone
           ELSE LET i == Max(Prompts(lines))
                    texts == SpanTexts(lines, i, Len(lines) + 1)
                    names == SpanToolNames(lines, i, Len(lines) + 1)
                IN IF texts = << >> /\ names = << >> THEN last_turn = ReturnedNone
                   ELSE /\ last_turn.py = "dict"
                        /\ last_turn.response = RuleResponse(texts, names)
                        /\ last_turn.response # << >>

\* both functions have produced the response of a turn of two different
\* tool calls and no text
C4_Witness ==
    /\ last_turn # NoLastTurn
    /\ last_turn.py = "dict"
    /\ Len(last_turn.tools) = 2
    /\ last_turn.response = S_ToolOnly \o S_Bash \o <<",", " ">> \o S_Task \o <<"]">>
    /\ \E k \in TurnIdx :
           /\ Len(session.turns[k].tools) = 2
           /\ session.turns[k].response = last_turn.response

(***************************************************************************)
(* C5: inserting a structural marker (type neither user nor assistant) or  *)
(* a user entry of empty or blank content at any position of a log leaves  *)
(* the turns of parse_session as they were: the same number of turns, each *)
(* with the same prompt, response, tools and blocks.                       *)
(***************************************************************************)
TurnsOf(file) == ParseSession(ReadJsonl(file)).ret.turns

SameTurns(a, b) ==
    /\ Len(a) = Len(b)
    /\ \A k \in 1..Len(a) :
           /\ a[k].prompt = b[k].prompt
           /\ a[k].response = b[k].response
           /\ a[k].tools = b[k].tools
           /\ a[k].blocks = b[k].blocks

C6_PromptNonEmpty ==
    \A k \in TurnIdx : session.turns[k].prompt # << >>

(***************************************************************************)
(* C8: a call of parse_session decodes exactly the lines of the file that  *)
(* decode, in their order, drops the blank and the undecodable ones, and   *)
(* returns its usual result, which carries no error and no count of them.  *)
(***************************************************************************)
Decodable(file) ==
    LET good == SelectSeq(file, LAMBDA line : line.kind = "json")
    IN [i \in 1..Len(good) |-> good[i].obj]

C8_CorruptLinesSkipped ==
    [][(entries' # entries \/ session' # session) =>
           /\ entries' = Decodable(transcript)
           /\ DOMAIN session'
                = {"session_id", "model", "version", "git_branch", "turns"}]_vars

\* the entries around a blank and an undecodable line were decoded and
\* made a turn
C8_Witness ==
    /\ Called
    /\ entries = Decodable(transcript)
    /\ Len(session.turns) = 1
    /\ \E i, j \in 1..Len(transcript) :
           /\ transcript[i].kind = "corrupt"
           /\ transcript[j].kind = "blank"
           /\ \E a, b \in 1..Len(transcript) :
                  /\ a < i /\ i < b /\ a < j /\ j < b
                  /\ transcript[a].kind = "json"
                  /\ transcript[b].kind = "json"

(***************************************************************************)
(* C10 as stated: a prompt that starts with a markdown H1 header line      *)
(* ("#", a space or tab, a title, a newline) followed by content is        *)
(* classified as a skill expansion when it has at least 100 words, and no  *)
(* prompt is classified without a header line ("#", whitespace, a newline  *)
(* followed by content) or with fewer than 100 words.                      *)
(***************************************************************************)
Words(p) ==
    Cardinality({i \in 1..Len(p) :
                    /\ p[i] \notin WHITESPACE
                    /\ (i = Len(p) \/ p[i + 1] \in WHITESPACE)})

\* "#", whitespace, and a newline followed by content
StartsWithH1Line(p) ==
    /\ Len(p) >= 2
    /\ p[1] = "#"
    /\ p[2] \in WHITESPACE
    /\ \E n \in 2..Len(p) :
           /\ p[n] = "\n"
           /\ \E i \in (n + 1)..Len(p) : p[i] \notin WHITESPACE

\* "#", a space or tab, a title on the same line, a newline, content
StartsWithTitledH1Line(p) ==
    /\ Len(p) >= 4
    /\ p[1] = "#"
    /\ p[2] \in {" ", "\t"}
    /\ \E n \in 4..Len(p) :
           /\ p[n] = "\n"
           /\ \A i \in 2..(n - 1) : p[i] # "\n"
           /\ \E i \in 3..(n - 1) : p[i] \notin WHITESPACE
           /\ \E i \in (n + 1)..Len(p) : p[i] \notin WHITESPACE

C10_MarkdownHeaderRule ==
    skill # NoSkill =>
        /\ (StartsWithTitledH1Line(prompt) /\ Words(prompt) >= 100) => skill.value
        /\ skill.value => (StartsWithH1Line(prompt) /\ Words(prompt) >= 100)

(***************************************************************************)
(* C10, the rule as coded: a prompt is classified exactly when             *)
(* it begins with "#", one or more whitespace characters, one word of      *)
(* letters, digits and underscores, and optional whitespace up to a        *)
(* newline, and has at least 100 whitespace-separated words; with such a   *)
(* beginning 100 words are classified and 99 are not.                      *)
(***************************************************************************)
StartsWithNameLine(p) ==
    /\ Len(p) >= 1
    /\ p[1] = "#"
    /\ \E a \in 3..Len(p) :
           /\ \A i \in 2..(a - 1) : p[i] \in WHITESPACE
           /\ \E b \in (a + 1)..Len(p) :
                  /\ \A i \in a..(b - 1) : p[i] \in WORD_CHARS
                  /\ \E c \in b..Len(p) :
                         /\ \A i \in b..(c - 1) : p[i] \in WHITESPACE
                         /\ p[c] = "\n"

C10_NameHeaderRule ==
    skill # NoSkill =>
        (skill.value <=> (StartsWithNameLine(prompt) /\ Words(prompt) >= 100))

\* a prompt of exactly 100 words was classified as a skill expansion
C10_Witness ==
    /\ skill # NoSkill
    /\ skill.value
    /\ Words(prompt) = 100

(***************************************************************************)
(* Vocabulary of the properties of compute_effectiveness_signals.          *)
(***************************************************************************)
SignalsCalled == signals # NoSignals

\* the analysed sequence: the turns that are not skill expansions
Analysed ==
    LET Kept(t) == ~IsSkillExpansion(t.prompt) IN SelectSeq(turns, Kept)

\* the adjacent pairs of the analysed sequence that lie within one session
WithinSession ==
    {i \in 1..(Len(Analysed) - 1) :
        Analysed[i].session_id = Analysed[i + 1].session_id}

\* the adjacent pairs of the analysed sequence that span two sessions
AcrossSessions ==
    {i \in 1..(Len(Analysed) - 1) :
        Analysed[i].session_id # Analysed[i + 1].session_id}

IsRatio(x, n, d) == x.den > 0 /\ x.num * d = n * x.den

\* every count and every rate of the result is zero
AllZero(s) ==
    /\ s.eligible_turns = 0
    /\ s.corrections_total = 0
    /\ IsRatio(s.correction_rate, 0, 1)
    /\ \A style \in {"question", "imperative", "statement"} :
           /\ s.per_style_effectiveness[style].count = 0
           /\ IsRatio(s.per_style_effectiveness[style].correction_rate, 0, 1)
           /\ IsRatio(s.per_style_effectiveness[style].avg_tool_count, 0, 1)
           /\ IsRatio(s.per_style_effectiveness[style].avg_tokens, 0, 1)
    /\ \A k \in {"question", "imperative", "statement", "overall"} :
           IsRatio(s.tool_scatter[k], 0, 1)
    /\ IsRatio(s.session_progression.first_half_correction_rate, 0, 1)
    /\ IsRatio(s.session_progression.second_half_correction_rate, 0, 1)
    /\ s.session_progression.warming_up = FALSE

(***************************************************************************)
(* C12: correction_rate is corrections_total / eligible_turns when         *)
(* eligible_turns > 0 and 0.0 otherwise, 0 <= corrections_total <=         *)
(* eligible_turns, and first_response_acceptance is 1 - correction_rate;   *)
(* with fewer than two analysed turns or no same-session adjacent pair the *)
(* result is all zero with first_response_acceptance 1.0.                  *)
(***************************************************************************)
C12_RateAndAcceptance ==
    SignalsCalled =>
        /\ 0 <= signals.corrections_total
        /\ signals.corrections_total <= signals.eligible_turns
        /\ signals.eligible_turns > 0 =>
               IsRatio(signals.correction_rate, signals.corrections_total,
                       signals.eligible_turns)
        /\ signals.eligible_turns = 0 => IsRatio(signals.correction_rate, 0, 1)
        /\ IsRatio(signals.first_response_acceptance,
                   signals.correction_rate.den - signals.correction_rate.num,
                   signals.correction_rate.den)
        /\ (Len(Analysed) < 2 \/ WithinSession = {}) =>
               /\ AllZero(signals)
               /\ IsRatio(signals.first_response_acceptance, 1, 1)

\* some but not all of at least two eligible pairs were corrections
C12_Witness ==
    /\ SignalsCalled
    /\ signals.eligible_turns >= 2
    /\ 0 < signals.corrections_total
    /\ signals.corrections_total < signals.eligible_turns

RECURSIVE Ascending(_)
\* the elements of a set of integers in increasing order
Ascending(S) ==
    IF S = {} THEN << >>
    ELSE LET lo == CHOOSE x \in S : \A y \in S : x <= y
         IN <<lo>> \o Ascending(S \ {lo})

\* the ordered eligible-pair sequence: TRUE where the pair is a correction
EligiblePairs ==
    LET order == Ascending(WithinSession)
    IN [k \in 1..Len(order) |-> IsCorrection(Analysed[order[k] + 1].prompt)]

\* the corrected pairs among pairs lo..hi of the eligible-pair sequence
CorrectedIn(lo, hi) ==
    Cardinality({k \in lo..hi : k <= Len(EligiblePairs) /\ EligiblePairs[k]})

\* x is the correction rate of pairs lo..hi, 0.0 if there are none
IsRateOf(x, lo, hi) ==
    IF hi < lo THEN IsRatio(x, 0, 1)
    ELSE IsRatio(x, CorrectedIn(lo, hi), hi - lo + 1)

Progression == signals.session_progression

(***************************************************************************)
(* C13 as stated: the n eligible pairs are split at floor(n/2); each       *)
(* half's rate is its corrected pairs over its size, 0.0 for an empty      *)
(* half, and warming_up holds exactly when the first-half rate is strictly *)
(* greater than the second-half rate.                                      *)
(***************************************************************************)
C13_SplitAtFloor ==
    (SignalsCalled /\ Len(EligiblePairs) >= 1) =>
        LET n == Len(EligiblePairs)
        IN /\ IsRateOf(Progression.first_half_correction_rate, 1, n \div 2)
           /\ IsRateOf(Progression.second_half_correction_rate,
                       (n \div 2) + 1, n)
           /\ Progression.warming_up
                  <=> RatLess(Progression.second_half_correction_rate,
                              Progression.first_half_correction_rate)

(***************************************************************************)
(* C13 amended: for n >= 2 eligible pairs the halves are the first         *)
(* floor(n/2) pairs and the remaining pairs; for n = 1 both halves are the *)
(* single pair; each half's rate is its corrected pairs over its size, and *)
(* warming_up holds exactly when the first-half rate is strictly greater   *)
(* than the second-half rate.                                              *)
(***************************************************************************)
C13_SplitAtFloorOrWhole ==
    (SignalsCalled /\ Len(EligiblePairs) >= 1) =>
        LET n == Len(EligiblePairs)
        IN /\ n >= 2 =>
                  /\ IsRateOf(Progression.first_half_correction_rate,
                              1, n \div 2)
                  /\ IsRateOf(Progression.second_half_correction_rate,
                              (n \div 2) + 1, n)
           /\ n = 1 =>
                  /\ IsRateOf(Progression.first_half_correction_rate, 1, 1)
                  /\ IsRateOf(Progression.second_half_correction_rate, 1, 1)
           /\ Progression.warming_up
                  <=> RatLess(Progression.second_half_correction_rate,
                              Progression.first_half_correction_rate)

\* four or more pairs whose halves have the same non-zero rate
C13_Witness ==
    /\ SignalsCalled
    /\ Len(EligiblePairs) >= 4
    /\ Progression.first_half_correction_rate.num > 0
    /\ Progression.first_half_correction_rate
           = Progression.second_half_correction_rate
    /\ ~Progression.warming_up

\* distinct non-empty files_touched values over tool calls, 0.0 without tools
ScatterOf(t) ==
    IF t.tools = << >> THEN Zero
    ELSE Rat(Cardinality({t.tools[i].files_touched : i \in 1..Len(t.tools)}
                             \ {<< >>}),
             Len(t.tools))

\* x is the mean of the scatter of the given turns
IsMeanScatter(x, ts) ==
    LET m == Mean([k \in 1..Len(ts) |-> ScatterOf(ts[k])])
    IN IF ts = << >> THEN IsRatio(x, 0, 1) ELSE IsRatio(x, m.num, m.den)

AnalysedOfStyle(style) ==
    LET OfStyle(t) == Classify_Prompt(t.prompt) = style
    IN SelectSeq(Analysed, OfStyle)

(***************************************************************************)
(* C14: tool_scatter.overall is the mean over every analysed turn of       *)
(* (distinct non-empty files_touched / tool calls of the turn), a turn     *)
(* without tool calls contributing 0.0; each per-style value is the same   *)
(* mean over the turns of that style; every value lies in [0, 1].          *)
(***************************************************************************)
C14_ScatterOverAllTurns ==
    (SignalsCalled /\ Len(Analysed) >= 1) =>
        /\ IsMeanScatter(signals.tool_scatter.overall, Analysed)
        /\ \A style \in {"question", "imperative", "statement"} :
               IsMeanScatter(signals.tool_scatter[style], AnalysedOfStyle(style))
        /\ \A k \in {"question", "imperative", "statement", "overall"} :
               /\ 0 <= signals.tool_scatter[k].num
               /\ signals.tool_scatter[k].num <= signals.tool_scatter[k].den

(***************************************************************************)
(* Vocabulary of the properties of compute_prompt_linguistics.             *)
(***************************************************************************)
\* the values returned by the calls made so far
Returns == {calls[k].ret : k \in 1..Len(calls)}

(***************************************************************************)
(* C15: certainty_markers.ratio is null exactly when hedging_count is 0,   *)
(* whatever assertive_count is, and is assertive_count / hedging_count     *)
(* otherwise; the computation never raises a division error.               *)
(***************************************************************************)
C15_RatioNullIffNoHedging ==
    \A r \in Returns :
        LET cm == r.certainty_markers
        IN /\ cm.ratio # ZeroDivisionError
           /\ cm.ratio = None <=> cm.hedging_count = 0
           /\ cm.hedging_count # 0 =>
                  /\ cm.ratio.py = "float"
                  /\ IsRatio(cm.ratio.value, cm.assertive_count, cm.hedging_count)

\* assertive phrases were counted, no hedging phrase was, and the ratio is null
C15_Witness ==
    \E r \in Returns :
        /\ r.certainty_markers.hedging_count = 0
        /\ r.certainty_markers.assertive_count > 0
        /\ r.certainty_markers.ratio = None

\* the labels of agency_framing in the order of the dict `agency`
AGENCY_LABELS == <<"i", "we", "you", "lets">>

\* the count recorded under the k-th label
AgencyCountOf(af, k) ==
    CASE k = 1 -> af.i_count [] k = 2 -> af.we_count
      [] k = 3 -> af.you_count [] OTHER -> af.lets_count

(***************************************************************************)
(* C16: agency_framing.dominant is "none" exactly when i_count, we_count,  *)
(* you_count and lets_count are all 0; otherwise it is a label whose count *)
(* is the maximum, the first such label in the order i, we, you, lets.     *)
(***************************************************************************)
C16_DominantFirstMax ==
    \A r \in Returns :
        LET af == r.agency_framing
        IN /\ af.dominant = "none" <=> \A k \in 1..4 : AgencyCountOf(af, k) = 0
           /\ af.dominant # "none" =>
                  \E k \in 1..4 :
                      /\ af.dominant = AGENCY_LABELS[k]
                      /\ \A j \in 1..4 : AgencyCountOf(af, j) <= AgencyCountOf(af, k)
                      /\ \A j \in 1..(k - 1) :
                             AgencyCountOf(af, j) < AgencyCountOf(af, k)

\* we and you are tied at the maximum, above i, and we is dominant
C16_Witness ==
    \E r \in Returns :
        /\ r.agency_framing.we_count = r.agency_framing.you_count
        /\ r.agency_framing.we_count > r.agency_framing.i_count
        /\ r.agency_framing.we_count >= r.agency_framing.lets_count
        /\ r.agency_framing.dominant = "we"

RECURSIVE WindowGrams(_, _)
\* the n-grams read in the windows of n words, from left to right
WindowGrams(words, n) ==
    IF Len(words) < n THEN << >>
    ELSE <<Join(<<" ">>, SubSeq(words, 1, n))>> \o WindowGrams(Tail(words), n)

RECURSIVE ScanGrams(_, _)
\* every n-gram occurrence of the prompts, scanning the prompts in order
ScanGrams(prompts, n) ==
    IF prompts = << >> THEN << >>
    ELSE WindowGrams(NgramWords(Head(prompts)), n) \o ScanGrams(Tail(prompts), n)

\* the n-gram is made of stop words only
OnlyStopWords(gram) == \A k \in 1..Len(Split(gram)) : Split(gram)[k] \in STOP_WORDS

\* the list returned for n-grams of n words is right for the turns ts
TopFifteen(ts, top, n) ==
    LET scan == ScanGrams(OrganicPrompts(ts), n)
        Occurrences(gram) == Cardinality({i \in 1..Len(scan) : scan[i] = gram})
        FirstSeen(gram) ==
            CHOOSE i \in 1..Len(scan) :
                scan[i] = gram /\ \A j \in 1..(i - 1) : scan[j] # gram
        returned == {top[k].ngram : k \in 1..Len(top)}
        leftOut == {scan[i] : i \in 1..Len(scan)} \ returned
    IN /\ Len(top) <= 15
       /\ \A k \in 1..Len(top) :
              /\ ~OnlyStopWords(top[k].ngram)
              /\ top[k].count = Occurrences(top[k].ngram)
              /\ top[k].count >= 1
       /\ \A k \in 1..(Len(top) - 1) :
              /\ top[k].count >= top[k + 1].count
              /\ top[k].count = top[k + 1].count =>
                     FirstSeen(top[k].ngram) < FirstSeen(top[k + 1].ngram)
       /\ \A gram \in leftOut :
              \/ OnlyStopWords(gram)
              \/ /\ Len(top) = 15
                 /\ Occurrences(gram) <= top[15].count

(***************************************************************************)
(* C17: frequent_ngrams holds, for bigrams and for trigrams, at most 15    *)
(* entries in non-increasing order of count; none is made of stop words    *)
(* only, every n-gram left out has a count no greater than every n-gram    *)
(* returned, and n-grams of equal count are in the order in which they     *)
(* were first encountered scanning the prompts in order.                   *)
(***************************************************************************)
C17_TopFifteenNgrams ==
    \A c \in 1..Len(calls) :
        /\ TopFifteen(calls[c].arg, calls[c].ret.frequent_ngrams.bigrams, 2)
        /\ TopFifteen(calls[c].arg, calls[c].ret.frequent_ngrams.trigrams, 3)

\* fifteen bigrams of unequal counts were returned and others were left out
C17_Witness ==
    \E c \in 1..Len(calls) :
        LET top == calls[c].ret.frequent_ngrams.bigrams
        IN /\ Len(top) = 15
           /\ top[1].count > top[2].count
           /\ top[2].count = top[3].count
           /\ \E i \in 1..Len(ScanGrams(OrganicPrompts(calls[c].arg), 2)) :
                  LET gram == ScanGrams(OrganicPrompts(calls[c].arg), 2)[i]
                  IN /\ ~OnlyStopWords(gram)
                     /\ \A k \in 1..15 : top[k].ngram # gram

(***************************************************************************)
(* C18: compute_prompt_linguistics is a pure function: a call leaves its   *)
(* input turns and the dicts returned earlier as they were, and two calls  *)
(* on the same turn collection return identical results, the zeroed empty  *)
(* result included, whatever calls were made before and however the caller *)
(* mutated the results of earlier calls.                                   *)
(***************************************************************************)
C18_PureFunction ==
    [][calls' # calls =>
          /\ turns' = turns
          /\ \A k \in 1..Len(calls) : heap'[calls[k].id] = heap[calls[k].id]
          /\ \A j, k \in 1..Len(calls') :
                 calls'[j].arg = calls'[k].arg => calls'[j].ret = calls'[k].ret]_vars

\* the empty result was returned, mutated by the caller, and returned afresh
C18_Witness ==
    /\ Len(calls) >= 2
    /\ calls[1].arg = calls[2].arg
    /\ calls[1].ret = EmptyLinguistics
    /\ calls[2].mutated_before
    /\ heap[calls[1].id] # calls[1].ret
    /\ calls[2].ret = EmptyLinguistics

\* get_turns_since has been called on the directory as it is
Reported == report # NoReport

\* the turns of the k-th file of the directory, when it is a session file
TurnsOfFile(k) ==
    IF transcript_dir[k].suffix = ".jsonl"
    THEN ParseSession(ReadJsonl(transcript_dir[k].content)).ret.turns
    ELSE << >>

\* the anchoring prompt of the turn is at or after the marker
AtOrAfter(turn, since) == ~StrLess(turn.timestamp, since)

\* file k, turn j: the turns of the project at or after the marker
TurnsDue(since) ==
    {kj \in (1..Len(transcript_dir)) \X (1..MaxLines) :
        /\ kj[2] <= Len(TurnsOfFile(kj[1]))
        /\ AtOrAfter(TurnsOfFile(kj[1])[kj[2]], since)}

\* C19: get_turns_since(cwd, since) returns exactly the turns, over all the
\* session files of the project, whose anchoring prompt is at or after since:
\* no returned turn is earlier than since, and no turn at or after since is
\* omitted, whatever the order of the timestamps inside a session file
C19_ExactlyTheTurnsSince ==
    Reported =>
        /\ \A k \in 1..Len(report.ret.turns) :
               AtOrAfter(report.ret.turns[k], report.since)
        /\ \A kj \in TurnsDue(report.since) :
               \E k \in 1..Len(report.ret.turns) :
                   report.ret.turns[k] = TurnsOfFile(kj[1])[kj[2]]
        /\ Len(report.ret.turns) = Cardinality(TurnsDue(report.since))

\* C20: handling the Stop event repeatedly for an unchanged transcript records
\* its last turn only once, and a transcript that has since gained a new
\* genuine prompt adds exactly one further row: the project has exactly one
\* prompts row for every prompt that was the last complete turn at a Stop
\* event handled with recording enabled
C20_OneRowPerTurn ==
    Len(OfProject(db.prompts, PROJECT)) = Cardinality(stopped)

\* a SessionStart event is being handled with recording enabled: only then
\* does a session_context row appear
SessionStarted == Len(db'.session_context) = Len(db.session_context) + 1

\* the age, in hours, of the project's most recent breakpoint
BreakpointAge == clock - GetCurrentBreakpoint(db, PROJECT).timestamp

\* exactly one breakpoint, whose note contains "Auto-breakpoint", is appended
AutoBreakpointAppended ==
    /\ Len(db'.breakpoints) = Len(db.breakpoints) + 1
    /\ SubSeq(db'.breakpoints, 1, Len(db.breakpoints)) = db.breakpoints
    /\ Contains(db'.breakpoints[Len(db'.breakpoints)].note, S_AutoBreakpoint)

\* C21: when handle_session_start runs for a project with recording enabled
\* and the most recent breakpoint is more than 4 hours old, exactly one new
\* breakpoint whose note contains "Auto-breakpoint" is appended; when it is
\* less than 4 hours old, no breakpoint is added
C21_AutoBreakpointWhenStale ==
    [][(SessionStarted /\ GetCurrentBreakpoint(db, PROJECT) # None) =>
           /\ BreakpointAge > 4 => AutoBreakpointAppended
           /\ BreakpointAge < 4 => db'.breakpoints = db.breakpoints]_vars

\* the hook has run
HookRan == outcome # NoOutcome

\* C22: the hook never blocks the caller: for every input, handle_stop and
\* handle_session_start return without propagating an exception, and
\* hook-mode main always exits with status 0, including on unreadable stdin
\* and unknown event names
C22_NeverBlocks ==
    HookRan => outcome.raised = "" /\ outcome.exit_status = 0

\* the number of add_breakpoint calls made on a project
CallsOn(project) == Len(bp_ids[project])

\* the ids of the entries in file order
StoredIds(project) ==
    [k \in 1..Len(GetAllBreakpoints(store, project)) |->
        GetAllBreakpoints(store, project)[k].id]

\* after n calls: the k-th call returned k, the file holds the ids 1..n in
\* order, the current breakpoint is the entry n and the previous one n-1
LogAfterCalls(project) ==
    LET n == CallsOn(project)
        current == StoreGetCurrentBreakpoint(store, project)
        previous == StoreGetPreviousBreakpoint(store, project)
    IN /\ \A k \in 1..n : bp_ids[project][k] = k
       /\ StoredIds(project) = [k \in 1..n |-> k]
       /\ IF n = 0 THEN current = None
          ELSE current = GetAllBreakpoints(store, project)[n] /\ current.id = n
       /\ IF n < 2 THEN previous = None
          ELSE previous = GetAllBreakpoints(store, project)[n - 1] /\ previous.id = n - 1

\* a step only adds lines at the end of a file
OnlyAppends ==
    \A project \in PROJECTS :
        /\ Len(store'[project]) >= Len(store[project])
        /\ SubSeq(store'[project], 1, Len(store[project])) = store[project]

\* C23: the JSONL breakpoint store is an append-only log: after n
\* add_breakpoint calls on a project the k-th call returned id k, the stored
\* ids are 1..n in file order, get_current_breakpoint returns the entry n
\* (None when n = 0) and get_previous_breakpoint the entry n-1 (None when
\* n < 2)
C23_AppendOnlyLog ==
    /\ [](\A project \in PROJECTS : LogAfterCalls(project))
    /\ [][OnlyAppends]_vars

C23_Witness ==
    /\ CallsOn(PROJECT) = 2
    /\ CallsOn(OTHER_PROJECT) = 1
    /\ StoreGetPreviousBreakpoint(store, PROJECT).id = 1
    /\ StoreGetCurrentBreakpoint(store, PROJECT).id = 2
    /\ StoreGetPreviousBreakpoint(store, OTHER_PROJECT) = None

\* the positions of the tool_use blocks of a turn before position j
ToolUsesBefore(blocks, j) == {i \in 1..(j - 1) : blocks[i].type = "tool_use"}

\* the name a tool_result at position j is to carry
NameDue(blocks, j) ==
    IF ToolUsesBefore(blocks, j) = {} THEN << >>
    ELSE blocks[Max(ToolUsesBefore(blocks, j))].tool_name

\* the positions of the tool_result blocks of a turn
ToolResults(blocks) == {j \in 1..Len(blocks) : blocks[j].type = "tool_result"}

\* C24: every tool_result block of a turn carries as tool_name the name of
\* the most recent tool_use block before it in the same turn, or the empty
\* string when none precedes it in that turn; a name seen in an earlier turn
\* is never carried over
C24_ResultNamedAfterLastToolUse ==
    \A t \in 1..Len(session.turns) :
        \A j \in ToolResults(session.turns[t].blocks) :
            session.turns[t].blocks[j].tool_name = NameDue(session.turns[t].blocks, j)

\* a turn with a tool call is followed by a turn whose tool result comes
\* before any tool call, and some result is named after the later of two calls
C24_Witness ==
    /\ \E t \in 2..Len(session.turns) :
           /\ session.turns[t - 1].tools # << >>
           /\ \E j \in ToolResults(session.turns[t].blocks) :
                  /\ ToolUsesBefore(session.turns[t].blocks, j) = {}
                  /\ session.turns[t].blocks[j].tool_name = << >>
    /\ \E t \in 1..Len(session.turns) :
           \E j \in ToolResults(session.turns[t].blocks) :
               /\ Cardinality(ToolUsesBefore(session.turns[t].blocks, j)) = 2
               /\ session.turns[t].blocks[j].tool_name = S_Task

\* the turns compute_effectiveness_signals works on
Considered == FilterSkillExpansions(turns)

\* the number of turns compute_prompt_linguistics counts
CountedByLinguistics == ComputePromptLinguistics(turns).prompt_length.count

\* C25: the Effectiveness Analyzer works on the same filtered turns as the
\* Linguistic Analyzer: every turn it considers has a non-blank prompt that
\* is no skill expansion, and they are the turns counted in
\* prompt_length.count
C25_SameFilteredTurns ==
    signals # NoSignals =>
        /\ \A i \in 1..Len(Considered) :
               /\ Strip(Considered[i].prompt) # << >>
               /\ ~IsSkillExpansion(Considered[i].prompt)
        /\ Len(Considered) = CountedByLinguistics

\* the style of a prompt: question if it contains "?", otherwise imperative
\* if its first word, lower-cased and stripped of punctuation, is an
\* imperative verb, otherwise statement
StyleDue(p) ==
    IF "?" \in {p[i] : i \in 1..Len(p)} THEN "question"
    ELSE IF Split(p) = << >> THEN "statement"
    ELSE IF StripChars(Lower(Head(Split(p))), PUNCTUATION) \in IMPERATIVE_VERBS
         THEN "imperative"
    ELSE "statement"

\* the eligible pairs whose earlier turn is of the style
PairsOfStyle(style) == {i \in WithinSession : StyleDue(Analysed[i].prompt) = style}

\* those of them that are corrections
CorrectedOfStyle(style) ==
    {i \in PairsOfStyle(style) : IsCorrection(Analysed[i + 1].prompt)}

\* the corrected count of a style, from the count and the rate reported
ReportedCorrected(ps) == (ps.correction_rate.num * ps.count) \div ps.correction_rate.den

\* C26: each eligible pair is bucketed exactly once, under the style of its
\* earlier turn; the three per-style counts sum to eligible_turns and the
\* per-style corrected counts sum to corrections_total
C26_BucketedOnceByEarlierTurn ==
    signals # NoSignals =>
        LET ps == signals.per_style_effectiveness
        IN /\ \A style \in {"question", "imperative", "statement"} :
                  /\ ps[style].count = Cardinality(PairsOfStyle(style))
                  /\ IsRatio(ps[style].correction_rate,
                             Cardinality(CorrectedOfStyle(style)),
                             IF ps[style].count = 0 THEN 1 ELSE ps[style].count)
           /\ ps.question.count + ps.imperative.count + ps.statement.count
                  = signals.eligible_turns
           /\ ReportedCorrected(ps.question) + ReportedCorrected(ps.imperative)
                  + ReportedCorrected(ps.statement) = signals.corrections_total

\* pairs of all three styles, a question that starts with an imperative verb
\* among them, and a corrected pair
C26_Witness ==
    /\ signals # NoSignals
    /\ \A style \in {"question", "imperative", "statement"} :
           signals.per_style_effectiveness[style].count > 0
    /\ \E i \in PairsOfStyle("question") : Analysed[i].prompt = P_FixQ
    /\ signals.corrections_total > 0

\* the word counts of the prompts a call analysed
WordCountsOf(ts) ==
    [k \in 1..Len(OrganicPrompts(ts)) |-> WordCount(OrganicPrompts(ts)[k])]

\* the quarter size for n prompts
QuarterDue(n) == Max({1, n \div 4})

\* the buckets for a sequence of n >= 1 word counts
FirstDue(wc) == [k \in 1..QuarterDue(Len(wc)) |-> wc[k]]
LastDue(wc) == [k \in 1..QuarterDue(Len(wc)) |-> wc[Len(wc) - QuarterDue(Len(wc)) + k]]
BetweenDue(wc) ==
    [k \in 1..Max({0, Len(wc) - 2 * QuarterDue(Len(wc))}) |-> wc[QuarterDue(Len(wc)) + k]]
MiddleDue(wc) == IF BetweenDue(wc) = << >> THEN wc ELSE BetweenDue(wc)

\* the three buckets of a call and the averages it returned are the ones due
PositionsAsDue(wc, by_position) ==
    /\ FirstQuarter(wc) = FirstDue(wc)
    /\ MiddleHalf(wc) = MiddleDue(wc)
    /\ LastQuarter(wc) = LastDue(wc)
    /\ by_position.first_quarter_avg = MeanInts(FirstDue(wc))
    /\ by_position.middle_half_avg = MeanInts(MiddleDue(wc))
    /\ by_position.last_quarter_avg = MeanInts(LastDue(wc))
    /\ FirstDue(wc) # << >> /\ MiddleDue(wc) # << >> /\ LastDue(wc) # << >>
    /\ Len(wc) >= 3 => FirstDue(wc) \o MiddleDue(wc) \o LastDue(wc) = wc

\* C27: for n >= 1 analysed prompts prompt_length_by_position uses the
\* quarter size q = max(1, floor(n/4)): the first bucket is the first q word
\* counts, the last bucket the last q, the middle bucket the word counts
\* between them or the whole sequence when nothing lies between them; the
\* three buckets are never empty and partition the sequence for n >= 3
C27_QuarterBuckets ==
    \A k \in 1..Len(calls) :
        Len(WordCountsOf(calls[k].arg)) >= 1 =>
            PositionsAsDue(WordCountsOf(calls[k].arg),
                           calls[k].ret.prompt_length_by_position)

\* a call on eight prompts: quarters of two and four counts between them
C27_Witness ==
    \E k \in 1..Len(calls) :
        /\ Len(WordCountsOf(calls[k].arg)) = 8
        /\ FirstQuarter(WordCountsOf(calls[k].arg)) = <<1, 3>>
        /\ MiddleHalf(WordCountsOf(calls[k].arg)) = <<3, 1, 1, 3>>
        /\ calls[k].ret.prompt_length_by_position.last_quarter_avg = MeanInts(<<3, 3>>)

\* the breakpoints of the project, oldest first
Breakpoints == OfProject(db.breakpoints, PROJECT)

\* the prompts of the project recorded after the previous breakpoint was
\* created and before the latest one was
BetweenLastTwo ==
    LET n == Len(Breakpoints)
        Between(p) == /\ Breakpoints[n - 1].timestamp < p.timestamp
                      /\ p.timestamp < Breakpoints[n].timestamp
    IN SelectSeq(OfProject(db.prompts, PROJECT), Between)

\* the prompt ids of a sequence of rows
PromptIds(rows, key) == [k \in 1..Len(rows) |-> rows[k][key]]

\* C28: with at least two breakpoints cmd_get_window returns exactly the
\* prompts recorded after the previous breakpoint was created and before the
\* latest breakpoint was created, in recording order; with a single
\* breakpoint it returns every prompt of the project
C28_WindowBetweenLastTwo ==
    (window # NoWindow /\ Len(Breakpoints) >= 1) =>
        PromptIds(window.interactions, "prompt_id")
            = IF Len(Breakpoints) >= 2 THEN PromptIds(BetweenLastTwo, "id")
              ELSE PromptIds(OfProject(db.prompts, PROJECT), "id")

\* no two prompts rows of one project share a transcript_offset that is set
NoSharedOffset ==
    \A i, j \in 1..Len(db.prompts) :
        (/\ i # j
         /\ db.prompts[i].project = db.prompts[j].project
         /\ db.prompts[i].transcript_offset # None)
            => db.prompts[i].transcript_offset # db.prompts[j].transcript_offset

\* the arguments of the run of record_interaction that a step made
CallProject == outcome'.project
CallOffset == Get(LoadJsonText(outcome'.json_text), "transcript_offset", None)

\* the offset of the run is already held by a row of its project
AlreadyRecorded ==
    /\ CallOffset # None
    /\ \E k \in 1..Len(db.prompts) :
           /\ db.prompts[k].project = CallProject
           /\ db.prompts[k].transcript_offset = CallOffset

\* the step left the four tables as they were
NothingInserted ==
    /\ db'.prompts = db.prompts
    /\ db'.tool_usage = db.tool_usage
    /\ db'.responses = db.responses
    /\ db'.turn_blocks = db.turn_blocks

\* the step added one prompts row for the run, with its tool, response and block
OneRecorded ==
    /\ Len(db'.prompts) = Len(db.prompts) + 1
    /\ SubSeq(db'.prompts, 1, Len(db.prompts)) = db.prompts
    /\ db'.prompts[Len(db'.prompts)].project = CallProject
    /\ db'.prompts[Len(db'.prompts)].transcript_offset = CallOffset
    /\ Len(db'.tool_usage) = Len(db.tool_usage) + 1
    /\ Len(db'.responses) = Len(db.responses) + 1
    /\ Len(db'.turn_blocks) = Len(db.turn_blocks) + 1

\* what a run of record_interaction may change
RecordedTables == <<db.prompts, db.tool_usage, db.responses, db.turn_blocks, outcome>>

\* C29: no two prompts rows of a project share a non-null transcript_offset:
\* a call whose offset already exists for the project inserts nothing into
\* prompts, tool_usage, responses or turn_blocks, while the same offset under
\* another project, a new offset or an absent offset is always recorded
C29_OffsetRecordedOnce ==
    /\ []NoSharedOffset
    /\ [][outcome' # NoOutcome =>
              IF AlreadyRecorded THEN NothingInserted ELSE OneRecorded]_RecordedTables

\* offset 0 is held by both projects and by one row each, and the last run
\* offered it again for the first project
C29_Witness ==
    /\ outcome # NoOutcome
    /\ outcome.project = PROJECT
    /\ Get(LoadJsonText(outcome.json_text), "transcript_offset", None) = PyInt(0)
    /\ Len(db.prompts) = 2
    /\ db.prompts[1].project = PROJECT /\ db.prompts[1].transcript_offset = PyInt(0)
    /\ db.prompts[2].project = OTHER_PROJECT
    /\ db.prompts[2].transcript_offset = PyInt(0)
    /\ Len(db.turn_blocks) = 2

\* both parsers have been run on the transcript as it is
BothParsed ==
    /\ last_turn # NoLastTurn
    /\ session # NotCalled
    /\ lines = HookReadLines(transcript)
    /\ entries = ReadJsonl(transcript)

\* the positions of the genuine prompts among the entries
GenuinePrompts ==
    {i \in 1..Len(entries) :
        Get(entries[i], "type", PyNone) = "user" /\ IsRealUserPrompt(entries[i])}

\* an assistant entry with a non-blank text block or a tool_use block
Speaks(entry) ==
    /\ Get(entry, "type", PyNone) = "assistant"
    /\ LET content == Get(Get(entry, "message", EmptyDict), "content", PyList(<< >>))
       IN /\ content.py = "list"
          /\ \E k \in 1..Len(content.items) :
                 /\ content.items[k].py = "dict"
                 /\ \/ /\ Get(content.items[k], "type", PyNone) = "text"
                       /\ Strip(Get(content.items[k], "text", << >>)) # << >>
                    \/ Get(content.items[k], "type", PyNone) = "tool_use"

\* there is no genuine prompt, or nothing is said after the last one
NothingAfterLastPrompt ==
    \/ GenuinePrompts = {}
    \/ ~\E i \in (Max(GenuinePrompts) + 1)..Len(entries) : Speaks(entries[i])

\* the four fields of a tool that both parsers report
ToolFields(tools) ==
    [k \in 1..Len(tools) |->
        [tool_name |-> tools[k].tool_name, input_summary |-> tools[k].input_summary,
         files_touched |-> tools[k].files_touched, is_subagent |-> tools[k].is_subagent]]

\* C30: parse_last_turn returns None exactly when the entries after the last
\* genuine prompt hold no non-blank assistant text and no tool_use, or there
\* is no genuine prompt; otherwise its prompt, its response and the
\* tool_name, input_summary, files_touched and is_subagent of its tools, in
\* order, equal those of the final turn parse_session returns
C30_ParsersAgreeOnLastTurn ==
    BothParsed =>
        /\ (last_turn = ReturnedNone) <=> NothingAfterLastPrompt
        /\ last_turn # ReturnedNone =>
               /\ session.turns # << >>
               /\ last_turn.prompt = session.turns[Len(session.turns)].prompt
               /\ last_turn.response = session.turns[Len(session.turns)].response
               /\ ToolFields(last_turn.tools)
                      = ToolFields(session.turns[Len(session.turns)].tools)

\* the second of two turns has a structured prompt and two tool calls, and
\* it is the turn both parsers return
C30_Witness ==
    /\ BothParsed
    /\ last_turn # ReturnedNone
    /\ Len(session.turns) = 2
    /\ Len(last_turn.tools) = 2
    /\ last_turn.prompt = <<"[", "i", "m", "a", "g", "e", "]", "\n", "t">>

====
